---- MODULE Spec2Model ----
(***************************************************************************)
(* Credential rotation for a quota-limited upstream API.                   *)
(*                                                                         *)
(*   rotation  health map, getHealth, isAvailable, pick, markRateLimited,  *)
(*             markSuccess, allRateLimited, status, resetHealth            *)
(*   fetch     parseRetryAfter, buildHeaders, copilotFetch (retry loop)    *)
(*   storage   load, list, add, remove, reorder, save, syncAuthJson (the    *)
(*             stored account array and the github-copilot entry of        *)
(*             auth.json)                                                  *)
(*   probe     probeAccount, probeAll (the two tiers and the abort timer)  *)
(*   commands  handleAccounts (remove, reorder)                            *)
(*   login     the callback of the device flow, which adds the account     *)
(*                                                                         *)
(* Time is in milliseconds, as Date.now() gives it.  An optional number    *)
(* (number | undefined) is a set with at most one element: {} is           *)
(* undefined, {n} is the number n.                                         *)
(***************************************************************************)
EXTENDS Integers, Sequences, FiniteSets, TLC

VARIABLES
    now,      \* Date.now()
    marks,    \* how many outcomes have been recorded in the health map (bounds the model)
    store,    \* multi-copilot-accounts.json: the stored array of accounts
    auth,     \* auth.json: its github-copilot entry ({} = none)
    cmd,      \* handleAccounts: the command in hand and where it stands (names:
              \* the arguments not yet looked up, found: the accounts they name)
    enrolled, \* history: the ids the login flow added, in the order of their
              \* addition, and whether a reorder has run since the first of them
    adders,   \* per concurrent add() call: where it stands, the account it was
              \* given and the array it loaded and changed
    called,   \* history: the add() or remove() a caller of the storage module made
              \* as the last change of the store, its argument and the stored array
              \* before it (NoCall: none, or the store was changed otherwise since)
    taken,    \* the Map a status() call returned: per id the record as it was
              \* then (was), whether the Map still shares the object with the
              \* health map (live), and the record last seen if it does not (last)
    health,   \* rotation's health map: account id -> AccountHealth
    pc,       \* per copilotFetch call: where the call stands ("thrown": it rejected)
    accts,    \* per call: the array the latest list() resolved to
    tried,    \* per call: the tried set
    current,  \* per call: the account of the attempt in flight ({} = none)
    sent,     \* per call: the Authorization header of every transport call
    answers,  \* per call: the status of every transport answer
    resp,     \* per call: the Response the call resolved to
    forgotten, \* history: ids whose record resetHealth deleted inside its window,
               \* and that have not been marked rate limited since
    streak,    \* history: per health record, the number of markRateLimited calls
               \* since the record was created, had a success or recovered, and the
               \* consecutive_failures and score it had then
    probing,   \* probeAll: "idle", "running" (awaiting allSettled) or "returned"
    probed,    \* probeAll: the accounts array it was called with
    stage,     \* per probeAccount call: "tier1", "tier2", "fulfilled" or "rejected"
    requests,  \* per probeAccount call: the fetch calls it has made
    results,   \* per probeAccount call: the ProbeResult it resolved to ({} = none)
    timers,    \* per probeAccount call: its setTimeout timer, "armed" until the
               \* instant at, then "fired" (the controller has aborted), or "cleared"
    map        \* probeAll: the Map it returned (account id -> ProbeResult)

probeVars == <<probing, probed, stage, requests, results, timers, map>>

storeVars == <<auth, cmd, enrolled, adders, called, taken>>

vars == <<now, marks, store, storeVars, health, pc, accts, tried, current, sent, answers, resp,
          forgotten, streak, probeVars>>

dispatchVars == <<pc, accts, tried, current, sent, answers, resp>>

----------------------------------------------------------------------------
(* Program constants *)

DEFAULT_RETRY_AFTER_MS == 60000

MAX_RETRY_AFTER_MS == 600000

TOO_MANY_REQUESTS == 429

PROBE_TIMEOUT_MS == 8000

(* Bounds of the model *)

StartTime == 1000000

MaxMarks == 2

MaxAttempts == 4

Ids == {"a", "b", "c"}

Calls == {1, 2}

Min(x, y) == IF x <= y THEN x ELSE y

Max(x, y) == IF x >= y THEN x ELSE y

TheValue(opt) == CHOOSE v \in opt : TRUE

----------------------------------------------------------------------------
(* storage: the stored accounts and list() *)

(* A domain as stored: the host, written with or without a scheme and a
   trailing slash; a stored object without a domain has defined = FALSE. *)
Domain(scheme, host, slash) ==
    [defined |-> TRUE, scheme |-> scheme, host |-> host, slash |-> slash]

GitHub == Domain("", "github.com", FALSE)

Account(id, priority) ==
    [id |-> id, label |-> "label-" \o id, priority |-> priority, token |-> "token-" \o id,
     domain |-> GitHub]

RECURSIVE InsertByPriority(_, _)
InsertByPriority(sorted, acc) ==
    IF sorted = <<>> THEN <<acc>>
    ELSE IF Head(sorted).priority <= acc.priority
         THEN <<Head(sorted)>> \o InsertByPriority(Tail(sorted), acc)
         ELSE <<acc>> \o sorted

RECURSIVE SortByPriority(_)
SortByPriority(accounts) ==
    IF accounts = <<>> THEN <<>>
    ELSE InsertByPriority(SortByPriority(SubSeq(accounts, 1, Len(accounts) - 1)),
                          accounts[Len(accounts)])

list(st) == SortByPriority(st)

(* An add that pushes the account whatever the array holds. *)
addAppending(st, account) == Append(st, account)

(* An add that puts a new account in front. *)
addInFront(st, account) ==
    IF \E i \in DOMAIN st : st[i].id = account.id
    THEN [i \in DOMAIN st |-> IF st[i].id = account.id THEN account ELSE st[i]]
    ELSE << account >> \o st

(* add: the element with the same id is replaced where it stands, else the
   account is pushed. *)
add(st, account) ==
    IF \E i \in DOMAIN st : st[i].id = account.id
    THEN LET existing == CHOOSE i \in DOMAIN st :
                             /\ st[i].id = account.id
                             /\ \A j \in DOMAIN st : st[j].id = account.id => i <= j
         IN  [st EXCEPT ![existing] = account]
    ELSE Append(st, account)

(* accounts.forEach((a, i) => { a.priority = i }) *)
reindexed(accounts) == [i \in DOMAIN accounts |-> [accounts[i] EXCEPT !.priority = i - 1]]

keep(accounts, ids) == SelectSeq(accounts, LAMBDA a : a.id \in ids)

idsOf(accounts) == {accounts[i].id : i \in DOMAIN accounts}

(* A remove that filters and does not renumber. *)
removeUnindexed(st, id) == keep(st, idsOf(st) \ {id})

(* A remove that renumbers and filters nothing. *)
removeNothing(st, id) == reindexed(st)

remove(st, id) == reindexed(keep(st, idsOf(st) \ {id}))

(* The first loop of reorder: the accounts of the ids given that are (still)
   in the map, in the order given; map.delete makes a repeated id unknown. *)
RECURSIVE reorderListed(_, _, _)
reorderListed(st, ids, deleted) ==
    IF ids = << >> THEN << >>
    ELSE LET id == Head(ids)
         IN  IF id \in idsOf(st) \ deleted
             THEN keep(st, {id}) \o reorderListed(st, Tail(ids), deleted \cup {id})
             ELSE reorderListed(st, Tail(ids), deleted)

(* A reorder that keeps the listed accounts only. *)
reorderDroppingUnlisted(st, ids) == reindexed(reorderListed(st, ids, {}))

(* reorder: the listed accounts, then what is left in the map, in the order of
   the stored array, each given the priority of its place. *)
reorder(st, ids) ==
    LET listed == reorderListed(st, ids, {})
    IN  reindexed(listed \o keep(st, idsOf(st) \ idsOf(listed)))

(* An entry written from the first element of the stored array only while
   auth.json has none. *)
syncAuthJsonOnce(st, entry) ==
    IF st = << >> \/ entry # {} THEN entry
    ELSE {[type |-> "oauth", refresh |-> st[1].token, access |-> st[1].token, expires |-> 0,
           enterpriseUrl |-> IF st[1].domain # GitHub THEN {st[1].domain} ELSE {}]}

(* syncAuthJson: the github-copilot entry of auth.json after the call. *)
syncAuthJson(st, entry) ==
    IF st = << >> THEN entry
    ELSE LET primary == list(st)[1]
         IN  {[type |-> "oauth", refresh |-> primary.token, access |-> primary.token,
               expires |-> 0,
               enterpriseUrl |-> IF primary.domain # GitHub THEN {primary.domain} ELSE {}]}

----------------------------------------------------------------------------
(* rotation: the health map *)

FreshHealth(id) ==
    [id |-> id, score |-> 100, rate_limited_until |-> 0, last_success |-> 0,
     last_failure |-> 0, consecutive_failures |-> 0]

getHealth(h, id) == IF id \in DOMAIN h THEN h ELSE h @@ (id :> FreshHealth(id))

(* The history of the calls into the health map.  A streak begins when a
   record is created, when markSuccess is applied to it and when isAvailable
   clears its elapsed window (a recovery); marked are the ids markRateLimited
   was called on in this step, succeeded those markSuccess was called on. *)
Begun(rec) == [k |-> 0, failures |-> rec.consecutive_failures, score |-> rec.score]

StreakOf(id) == IF id \in DOMAIN streak THEN streak[id] ELSE Begun(FreshHealth(id))

Recovering ==
    {id \in DOMAIN health \cap DOMAIN health' :
        health[id].rate_limited_until # 0 /\ health'[id].rate_limited_until = 0}

Counted(marked, succeeded) ==
    streak' = [id \in DOMAIN health' |->
                 IF id \in succeeded \cup Recovering THEN Begun(health'[id])
                 ELSE IF id \in marked THEN [StreakOf(id) EXCEPT !.k = @ + 1]
                 ELSE StreakOf(id)]

(* The same for a probe, from the result it returned: rate_limited and
   quota_exhausted come with a markRateLimited call, ok with a markSuccess. *)
ProbeCounted(id, result) ==
    Counted({id : r \in {x \in result : x.status \in {"rate_limited", "quota_exhausted"}}},
            {id : r \in {x \in result : x.status = "ok"}})

StreakInit == streak = [id \in DOMAIN health |-> Begun(health[id])]

(* An availability check that clears the window and grants no bonus. *)
isAvailableNoBonus(rec, t) ==
    IF rec.rate_limited_until = 0 THEN [avail |-> TRUE, rec |-> rec]
    ELSE IF t >= rec.rate_limited_until
         THEN [avail |-> TRUE, rec |-> [rec EXCEPT !.rate_limited_until = 0]]
         ELSE [avail |-> FALSE, rec |-> rec]

(* An availability check that grants the bonus but leaves the window set. *)
isAvailableKeepingWindow(rec, t) ==
    IF rec.rate_limited_until = 0 THEN [avail |-> TRUE, rec |-> rec]
    ELSE IF t >= rec.rate_limited_until
         THEN [avail |-> TRUE, rec |-> [rec EXCEPT !.score = Min(100, rec.score + 10)]]
         ELSE [avail |-> FALSE, rec |-> rec]

isAvailable(rec, t) ==
    IF rec.rate_limited_until = 0 THEN [avail |-> TRUE, rec |-> rec]
    ELSE IF t >= rec.rate_limited_until
         THEN [avail |-> TRUE,
               rec |-> [rec EXCEPT !.rate_limited_until = 0,
                                   !.score = Min(100, rec.score + 10)]]
         ELSE [avail |-> FALSE, rec |-> rec]

(* A scan that gives up at the first account that is not available. *)
RECURSIVE pickFromStopping(_, _, _, _, _)
pickFromStopping(accounts, i, h, t, excludeIds) ==
    IF i > Len(accounts) THEN [found |-> {}, health |-> h]
    ELSE IF accounts[i].id \in excludeIds
         THEN pickFromStopping(accounts, i + 1, h, t, excludeIds)
         ELSE LET h1 == getHealth(h, accounts[i].id)
                  a  == isAvailable(h1[accounts[i].id], t)
                  h2 == [h1 EXCEPT ![accounts[i].id] = a.rec]
              IN  IF a.avail THEN [found |-> {accounts[i]}, health |-> h2]
                  ELSE [found |-> {}, health |-> h2]

RECURSIVE pickFrom(_, _, _, _, _)
pickFrom(accounts, i, h, t, excludeIds) ==
    IF i > Len(accounts) THEN [found |-> {}, health |-> h]
    ELSE IF accounts[i].id \in excludeIds
         THEN pickFrom(accounts, i + 1, h, t, excludeIds)
         ELSE LET h1 == getHealth(h, accounts[i].id)
                  a  == isAvailable(h1[accounts[i].id], t)
                  h2 == [h1 EXCEPT ![accounts[i].id] = a.rec]
              IN  IF a.avail THEN [found |-> {accounts[i]}, health |-> h2]
                  ELSE pickFrom(accounts, i + 1, h2, t, excludeIds)

pickIgnoringExclude(accounts, h, t, excludeIds) == pickFrom(accounts, 1, h, t, {})

pick(accounts, h, t, excludeIds) == pickFrom(accounts, 1, h, t, excludeIds)

(* A delay clamped from below as well. *)
retryDelayClamped(retryAfterMs) ==
    Max(DEFAULT_RETRY_AFTER_MS,
        Min(IF retryAfterMs = {} THEN DEFAULT_RETRY_AFTER_MS ELSE TheValue(retryAfterMs),
            MAX_RETRY_AFTER_MS))

(* A delay taken as given, without the maximum. *)
retryDelayUncapped(retryAfterMs) ==
    IF retryAfterMs = {} THEN DEFAULT_RETRY_AFTER_MS ELSE TheValue(retryAfterMs)

retryDelay(retryAfterMs) ==
    Min(IF retryAfterMs = {} THEN DEFAULT_RETRY_AFTER_MS ELSE TheValue(retryAfterMs),
        MAX_RETRY_AFTER_MS)

(* A mark that subtracts 10 from the score without the floor. *)
markRateLimitedNoFloor(h, id, retryAfterMs, t) ==
    LET h1 == getHealth(h, id)
    IN  [h1 EXCEPT ![id] = [@ EXCEPT !.rate_limited_until = t + retryDelay(retryAfterMs),
                                     !.score = @ - 10,
                                     !.last_failure = t,
                                     !.consecutive_failures = @ + 1]]

(* An update written from a record read before the other updates: the
   record as it was first created, not the one in the map. *)
markRateLimitedStale(h, id, retryAfterMs, t) ==
    LET rec == FreshHealth(id)
    IN  [j \in DOMAIN h \cup {id} |->
            IF j = id
            THEN [rec EXCEPT !.rate_limited_until = t + retryDelay(retryAfterMs),
                             !.score = Max(0, rec.score - 10),
                             !.last_failure = t,
                             !.consecutive_failures = rec.consecutive_failures + 1]
            ELSE h[j]]

markRateLimited(h, id, retryAfterMs, t) ==
    LET h1 == getHealth(h, id)
    IN  [h1 EXCEPT ![id] = [@ EXCEPT !.rate_limited_until = t + retryDelay(retryAfterMs),
                                     !.score = Max(0, @ - 10),
                                     !.last_failure = t,
                                     !.consecutive_failures = @ + 1]]

(* A success that also ends the window. *)
markSuccessClearingWindow(h, id, t) ==
    LET h1 == getHealth(h, id)
    IN  [h1 EXCEPT ![id] = [@ EXCEPT !.score = Min(100, @ + 1),
                                     !.last_success = t,
                                     !.consecutive_failures = 0,
                                     !.rate_limited_until = 0]]

markSuccess(h, id, t) ==
    LET h1 == getHealth(h, id)
    IN  [h1 EXCEPT ![id] = [@ EXCEPT !.score = Min(100, @ + 1),
                                     !.last_success = t,
                                     !.consecutive_failures = 0]]

RECURSIVE allRateLimitedFrom(_, _, _, _, _)
allRateLimitedFrom(accounts, i, h, t, earliest) ==
    IF i > Len(accounts) THEN [recovery |-> earliest, health |-> h]
    ELSE LET h1 == getHealth(h, accounts[i].id)
             a  == isAvailable(h1[accounts[i].id], t)
             h2 == [h1 EXCEPT ![accounts[i].id] = a.rec]
             u  == a.rec.rate_limited_until
         IN  IF a.avail THEN [recovery |-> {}, health |-> h2]
             ELSE allRateLimitedFrom(accounts, i + 1, h2, t,
                      IF earliest = {} \/ u < TheValue(earliest) THEN {u} ELSE earliest)

(* allRateLimited() reporting the latest end of a window instead. *)
allRateLimitedLatest(accounts, h, t) ==
    LET r == IF Len(accounts) = 0 THEN [recovery |-> {}, health |-> h]
             ELSE allRateLimitedFrom(accounts, 1, h, t, {})
    IN  [r EXCEPT !.recovery =
            IF @ = {} THEN {}
            ELSE LET ends == {r.health[accounts[i].id].rate_limited_until :
                                  i \in 1..Len(accounts)}
                 IN  {CHOOSE u \in ends : \A v \in ends : v <= u}]

(* allRateLimited() reporting the window of the first account of the pool. *)
allRateLimitedFirst(accounts, h, t) ==
    LET r == IF Len(accounts) = 0 THEN [recovery |-> {}, health |-> h]
             ELSE allRateLimitedFrom(accounts, 1, h, t, {})
    IN  [r EXCEPT !.recovery =
            IF @ = {} THEN {} ELSE {r.health[accounts[1].id].rate_limited_until}]

allRateLimited(accounts, h, t) ==
    IF Len(accounts) = 0 THEN [recovery |-> {}, health |-> h]
    ELSE allRateLimitedFrom(accounts, 1, h, t, {})

(* A reset that restores the score and the failure count and keeps the window. *)
resetHealthKeepingWindow(h, id) ==
    IF id \in DOMAIN h
    THEN [h EXCEPT ![id] = [@ EXCEPT !.score = 100, !.consecutive_failures = 0]]
    ELSE h

resetHealth(h, id) == [i \in DOMAIN h \ {id} |-> h[i]]

(* status(): new Map(health), a Map of its own that holds the record objects
   of the health map, not copies of them. *)
statusOf(h) == [id \in DOMAIN h |-> [was |-> h[id], live |-> TRUE, last |-> h[id]]]

(* What resetHealth(id) means for the Map status() returned: health.delete
   takes the record object out of the health map only, the returned Map keeps
   it as it is now, and no later call reaches that object. *)
Detached(id) ==
    taken' = [i \in DOMAIN taken |->
                 IF i = id /\ taken[i].live
                 THEN [taken[i] EXCEPT !.live = FALSE, !.last = health[id]]
                 ELSE taken[i]]

----------------------------------------------------------------------------
(* The stored arrays a run starts from.  add() stores the priority it is
   given, so the file order need not be the priority order, and priorities may
   tie: list() sorts, and Array.prototype.sort is stable. *)
Pools ==
    { << >>,
      << Account("a", 0) >>,
      << Account("a", 0), Account("b", 1) >>,
      << Account("a", 1), Account("b", 0) >>,
      << Account("a", 0), Account("b", 1), Account("c", 2) >>,
      << Account("a", 2), Account("b", 0), Account("c", 0) >> }

(* What a caller may pass as retryAfterMs: nothing, or a number of ms below
   the default or above the maximum. *)
RetryAfterArgs ==
    { {}, {1}, {MAX_RETRY_AFTER_MS + DEFAULT_RETRY_AFTER_MS} }

(* The clock.  Only the order of Date.now(), the rate_limited_until values and
   the instants of the probe timers decides what the code does, so the clock
   advances from one of them to the next one that is still ahead. *)
Pending == {i \in DOMAIN stage : stage[i] \in {"tier1", "tier2"}}

Instants ==
    ({health[id].rate_limited_until : id \in DOMAIN health} \ {0})
    \cup {timers[i].at : i \in Pending}

idle == [c \in Calls |-> "idle"]

(* The add() calls that may overlap in time. *)
Adders == {"p1", "p2"}

NoAdders == [p \in Adders |-> [pc |-> "idle", account |-> {}, accounts |-> << >>]]

NoCall == [op |-> "", arg |-> << >>, before |-> << >>]

NoCommand ==
    [action |-> "", names |-> << >>, pc |-> "idle", found |-> << >>, answer |-> "",
     remaining |-> 0]

(* No command in hand; auth.json holds what save() last wrote for the stored
   array, nothing when the array is empty. *)
StoreInit ==
    /\ auth = syncAuthJson(store, {})
    /\ cmd = NoCommand
    /\ enrolled = [order |-> << >>, reordered |-> FALSE]
    /\ adders = NoAdders
    /\ called = NoCall
    /\ taken = << >>

ProbeInit ==
    /\ probing = "idle"
    /\ probed = << >>
    /\ stage = << >>
    /\ requests = << >>
    /\ results = << >>
    /\ timers = << >>
    /\ map = << >>

DispatchInit ==
    /\ pc = idle
    /\ accts = [c \in Calls |-> <<>>]
    /\ tried = [c \in Calls |-> {}]
    /\ current = [c \in Calls |-> {}]
    /\ sent = [c \in Calls |-> <<>>]
    /\ answers = [c \in Calls |-> <<>>]
    /\ resp = [c \in Calls |-> {}]

(* A timer fires at its instant, and the rejections an abort sets off, like
   the resolution of Promise.allSettled once every probe has settled, are
   microtasks that run before the clock moves on: time does not pass the timer
   of a pending probe, nor a probeAll that is ready to return. *)
Tick(t) ==
    /\ t > now
    /\ \A i \in Pending : timers[i].state = "armed" /\ t <= timers[i].at
    /\ probing = "running" => Pending # {}
    /\ now' = t
    /\ UNCHANGED <<marks, store, storeVars, probeVars, forgotten, streak, health, dispatchVars>>

----------------------------------------------------------------------------
(* fetch: the retry-dispatch wrapper *)

(* A retry-after header as the transport sends it: absent, a number of
   seconds, an HTTP date (the instant it names, in ms), or neither. *)
Header(kind, v) == [kind |-> kind, v |-> v]

NoHeader == Header("absent", 0)

parseRetryAfter(response, t) ==
    LET header == response.retryAfter
    IN  IF header.kind = "absent" THEN {}
        ELSE IF header.kind = "seconds" THEN {header.v * 1000}
        ELSE IF header.kind = "date" THEN {Max(0, header.v - t)}
        ELSE {}

buildHeaders(account) == [Authorization |-> "Bearer " \o account.token]

truthy(opt) == opt # {} /\ TheValue(opt) # 0

NoResponse == [status |-> 0, retryAfter |-> NoHeader, body |-> ""]

synthesized(recovery, otherwise) ==
    [synth |-> TRUE, status |-> TOO_MANY_REQUESTS,
     error |-> IF truthy(recovery) THEN "All accounts rate limited. Earliest recovery: "
               ELSE otherwise,
     recovery |-> IF truthy(recovery) THEN recovery ELSE {},
     response |-> NoResponse]

(* A wrapper that builds a new Response from the status alone. *)
passedThroughRewrapped(response) ==
    [synth |-> FALSE, status |-> response.status, error |-> "", recovery |-> {},
     response |-> [response EXCEPT !.body = "", !.retryAfter = NoHeader]]

passedThrough(response) ==
    [synth |-> FALSE, status |-> response.status, error |-> "", recovery |-> {},
     response |-> response]

(* What the transport may answer at time t. *)
Responses(t) ==
    { [status |-> st, retryAfter |-> NoHeader, body |-> "{}"] : st \in {200, 500} }
    \cup
    { [status |-> TOO_MANY_REQUESTS, retryAfter |-> h, body |-> ""] :
        h \in {NoHeader, Header("seconds", 0), Header("seconds", 120),
               Header("date", t - 1000), Header("date", t + DEFAULT_RETRY_AFTER_MS),
               Header("garbage", 0)} }

(* copilotFetch is called: pick() runs up to its await list().  A call makes
   at most one transport call per stored account; calls are started as long as
   the transport calls of all started calls together stay within MaxAttempts. *)
fetchCalled(c) ==
    /\ pc[c] = "idle"
    /\ (Cardinality({d \in Calls : pc[d] # "idle"}) + 1) * Len(store) <= MaxAttempts
    /\ pc' = [pc EXCEPT ![c] = "pick"]
    /\ UNCHANGED <<now, marks, store, storeVars, probeVars, forgotten, streak, health, accts, tried, current,
                   sent, answers, resp>>

(* A loop body without its tried.add(). *)
pickResolvedForgetful(c) ==
    /\ pc[c] = "pick"
    /\ accts' = [accts EXCEPT ![c] = list(store)]
    /\ LET r == pick(accts'[c], health, now, tried[c])
       IN  /\ health' = r.health
           /\ current' = [current EXCEPT ![c] = r.found]
           /\ IF r.found # {}
              THEN /\ sent' = [sent EXCEPT ![c] =
                                 Append(@, buildHeaders(TheValue(r.found)).Authorization)]
                   /\ pc' = [pc EXCEPT ![c] = "fetch"]
              ELSE /\ pc' = [pc EXCEPT ![c] = "recovery"]
                   /\ UNCHANGED sent
    /\ UNCHANGED <<now, marks, store, storeVars, probeVars, forgotten, tried, answers, resp>>
    /\ Counted({}, {})

(* A wrapper that picks among the accounts no other call has in flight. *)
pickResolvedSingleFlight(c) ==
    /\ pc[c] = "pick"
    /\ accts' = [accts EXCEPT ![c] = list(store)]
    /\ LET inFlight == {a.id : a \in UNION {current[d] : d \in {e \in Calls \ {c} :
                                                                  pc[e] = "fetch"}}}
           r == pick(accts'[c], health, now, tried[c] \cup inFlight)
       IN  /\ health' = r.health
           /\ current' = [current EXCEPT ![c] = r.found]
           /\ IF r.found # {}
              THEN /\ tried' = [tried EXCEPT ![c] = @ \cup {TheValue(r.found).id}]
                   /\ sent' = [sent EXCEPT ![c] =
                                 Append(@, buildHeaders(TheValue(r.found)).Authorization)]
                   /\ pc' = [pc EXCEPT ![c] = "fetch"]
              ELSE /\ pc' = [pc EXCEPT ![c] = "recovery"]
                   /\ UNCHANGED <<tried, sent>>
    /\ UNCHANGED <<now, marks, store, storeVars, probeVars, forgotten, answers, resp>>
    /\ Counted({}, {})

(* list() resolves inside pick(), pick() scans and returns; on an account the
   loop body runs up to its await fetch(); on none the call goes on to
   allRateLimited() and its await list().  The scan follows the read without
   an await, so the array is read, as it is stored then, where it is scanned. *)
pickResolved(c) ==
    /\ pc[c] = "pick"
    /\ accts' = [accts EXCEPT ![c] = list(store)]
    /\ LET r == pick(accts'[c], health, now, tried[c])
       IN  /\ health' = r.health
           /\ current' = [current EXCEPT ![c] = r.found]
           /\ IF r.found # {}
              THEN /\ tried' = [tried EXCEPT ![c] = @ \cup {TheValue(r.found).id}]
                   /\ sent' = [sent EXCEPT ![c] =
                                 Append(@, buildHeaders(TheValue(r.found)).Authorization)]
                   /\ pc' = [pc EXCEPT ![c] = "fetch"]
              ELSE /\ pc' = [pc EXCEPT ![c] = "recovery"]
                   /\ UNCHANGED <<tried, sent>>
    /\ UNCHANGED <<now, marks, store, storeVars, probeVars, forgotten, answers, resp>>
    /\ Counted({}, {})

(* A wrapper that hands every answer back, a 429 too. *)
transportAnsweredNoRetry(c, response) ==
    /\ pc[c] = "fetch"
    /\ answers' = [answers EXCEPT ![c] = Append(@, response.status)]
    /\ health' = markSuccess(health, TheValue(current[c]).id, now)
    /\ resp' = [resp EXCEPT ![c] = {passedThrough(response)}]
    /\ pc' = [pc EXCEPT ![c] = "done"]
    /\ UNCHANGED <<now, marks, store, storeVars, probeVars, forgotten, accts, tried, current, sent>>
    /\ Counted({}, {TheValue(current[c]).id})

(* A loop that goes on to the next account without recording the 429. *)
transportAnsweredUnrecorded(c, response) ==
    /\ pc[c] = "fetch"
    /\ answers' = [answers EXCEPT ![c] = Append(@, response.status)]
    /\ IF response.status # TOO_MANY_REQUESTS
       THEN /\ health' = markSuccess(health, TheValue(current[c]).id, now)
            /\ resp' = [resp EXCEPT ![c] = {passedThrough(response)}]
            /\ pc' = [pc EXCEPT ![c] = "done"]
       ELSE /\ pc' = [pc EXCEPT ![c] = "pick"]
            /\ UNCHANGED <<health, resp>>
    /\ UNCHANGED <<now, marks, store, storeVars, probeVars, forgotten, accts, tried, current, sent>>
    /\ Counted({}, IF response.status # TOO_MANY_REQUESTS THEN {TheValue(current[c]).id} ELSE {})

(* The transport answers the attempt in flight. *)
transportAnswered(c, response) ==
    /\ pc[c] = "fetch"
    /\ answers' = [answers EXCEPT ![c] = Append(@, response.status)]
    /\ IF response.status # TOO_MANY_REQUESTS
       THEN /\ health' = markSuccess(health, TheValue(current[c]).id, now)
            /\ resp' = [resp EXCEPT ![c] = {passedThrough(response)}]
            /\ pc' = [pc EXCEPT ![c] = "done"]
       ELSE /\ health' = markRateLimited(health, TheValue(current[c]).id,
                                         parseRetryAfter(response, now), now)
            /\ pc' = [pc EXCEPT ![c] = "pick"]
            /\ UNCHANGED resp
    /\ UNCHANGED <<now, marks, store, storeVars, probeVars, forgotten, accts, tried, current, sent>>
    /\ Counted(IF response.status = TOO_MANY_REQUESTS THEN {TheValue(current[c]).id} ELSE {},
               IF response.status # TOO_MANY_REQUESTS THEN {TheValue(current[c]).id} ELSE {})

(* A wrapper that catches the exception and counts it against the account. *)
rejectedAsRateLimited(h, id, t) == markRateLimited(h, id, {}, t)

(* What an exception thrown by the awaited fetch() does to the health map:
   nothing, there is no catch and no call into the rotation module. *)
rejected(h, id, t) == h

(* The transport call of the attempt in flight fails: fetch() rejects, the
   await throws, copilotFetch has no try around it, the call rejects. *)
transportFailed(c) ==
    /\ pc[c] = "fetch"
    /\ health' = rejected(health, TheValue(current[c]).id, now)
    /\ pc' = [pc EXCEPT ![c] = "thrown"]
    /\ UNCHANGED <<now, marks, store, storeVars, probeVars, forgotten, accts, tried, current, sent,
                   answers, resp>>
    /\ Counted({}, {})

(* list() resolves inside allRateLimited(), allRateLimited() scans and returns;
   the call resolves to a synthesized 429. *)
recoveryResolved(c) ==
    /\ pc[c] = "recovery"
    /\ accts' = [accts EXCEPT ![c] = list(store)]
    /\ LET r == allRateLimited(accts'[c], health, now)
       IN  /\ health' = r.health
           /\ resp' = [resp EXCEPT ![c] =
                         {synthesized(r.recovery,
                                      IF tried[c] = {}
                                      THEN "No GitHub Copilot accounts configured"
                                      ELSE "All accounts exhausted")}]
    /\ pc' = [pc EXCEPT ![c] = "done"]
    /\ Counted({}, {})
    /\ UNCHANGED <<now, marks, store, storeVars, probeVars, forgotten, tried, current, sent, answers>>

Init ==
    /\ now = StartTime
    /\ marks = 0
    /\ store \in Pools
    /\ health = << >>
    /\ forgotten = {}
    /\ StoreInit
    /\ StreakInit
    /\ DispatchInit
    /\ ProbeInit

Next ==
    \/ \E t \in Instants : Tick(t)
    \/ \E c \in Calls : fetchCalled(c)
    \/ \E c \in Calls : pickResolved(c)
    \/ \E c \in Calls : \E response \in Responses(now) : transportAnswered(c, response)
    \/ \E c \in Calls : transportFailed(c)
    \/ \E c \in Calls : recoveryResolved(c)

Spec == Init /\ [][Next]_vars

(* The same, with what the runtime guarantees: a file read resolves, a
   continuation that is ready runs, and (the proviso of the termination claim)
   every transport call returns. *)
Fairness ==
    \A c \in Calls :
        /\ WF_vars(pickResolved(c))
        /\ WF_vars(\E response \in Responses(now) : transportAnswered(c, response))
        /\ WF_vars(recoveryResolved(c))

FairSpec == Spec /\ Fairness

----------------------------------------------------------------------------
(* The rotation module called directly, in any order, by any caller (the
   dispatch wrapper, the prober, the commands, the tests). *)

callPick(excludeIds) ==
    /\ health' = pick(list(store), health, now, excludeIds).health
    /\ Counted({}, {})
    /\ UNCHANGED <<now, marks, store, storeVars, probeVars, forgotten, dispatchVars>>

callMarkRateLimited(id, retryAfterMs) ==
    /\ marks < MaxMarks
    /\ marks' = marks + 1
    /\ health' = markRateLimited(health, id, retryAfterMs, now)
    /\ forgotten' = forgotten \ {id}
    /\ Counted({id}, {})
    /\ UNCHANGED <<now, store, storeVars, probeVars, dispatchVars>>

callMarkSuccess(id) ==
    /\ marks < MaxMarks
    /\ marks' = marks + 1
    /\ health' = markSuccess(health, id, now)
    /\ Counted({}, {id})
    /\ UNCHANGED <<now, store, storeVars, probeVars, forgotten, dispatchVars>>

callAllRateLimited ==
    /\ health' = allRateLimited(list(store), health, now).health
    /\ Counted({}, {})
    /\ UNCHANGED <<now, marks, store, storeVars, probeVars, forgotten, dispatchVars>>

callResetHealth(id) ==
    /\ health' = resetHealth(health, id)
    /\ forgotten' = IF id \in DOMAIN health /\ now < health[id].rate_limited_until
                    THEN forgotten \cup {id} ELSE forgotten
    /\ Counted({}, {})
    /\ Detached(id)
    /\ UNCHANGED <<now, marks, store, auth, cmd, enrolled, adders, called, probeVars, dispatchVars>>

(* A reporter calls status() and keeps the Map. *)
callStatus ==
    /\ taken = << >>
    /\ health # << >>
    /\ taken' = statusOf(health)
    /\ UNCHANGED <<now, marks, store, auth, cmd, enrolled, adders, called, probeVars, forgotten,
                   streak, health, dispatchVars>>

InitRotation ==
    /\ now = StartTime
    /\ marks = 0
    /\ store \in Pools
    /\ health = << >>
    /\ forgotten = {}
    /\ StoreInit
    /\ StreakInit
    /\ DispatchInit
    /\ ProbeInit

NextRotation ==
    \/ \E t \in Instants : Tick(t)
    \/ \E E \in SUBSET Ids : callPick(E)
    \/ \E id \in Ids, ra \in RetryAfterArgs : callMarkRateLimited(id, ra)
    \/ \E id \in Ids : callMarkSuccess(id)
    \/ callAllRateLimited
    \/ \E id \in Ids : callResetHealth(id)

SpecRotation == InitRotation /\ [][NextRotation]_vars

(* The same on a pool of two accounts, with a reporter that holds on to the
   Map status() returned. *)
SnapshotPools == { << Account("a", 0), Account("b", 1) >> }

InitSnapshot ==
    /\ now = StartTime
    /\ marks = 0
    /\ store \in SnapshotPools
    /\ health = << >>
    /\ forgotten = {}
    /\ StoreInit
    /\ StreakInit
    /\ DispatchInit
    /\ ProbeInit

NextSnapshot ==
    \/ \E t \in Instants : Tick(t)
    \/ callPick({})
    \/ \E id \in idsOf(store), ra \in RetryAfterArgs : callMarkRateLimited(id, ra)
    \/ \E id \in idsOf(store) : callMarkSuccess(id)
    \/ callAllRateLimited
    \/ \E id \in idsOf(store) : callResetHealth(id)
    \/ callStatus

SpecSnapshot == InitSnapshot /\ [][NextSnapshot]_vars

----------------------------------------------------------------------------
(* probe: tokenExchangeURL, userApiURL, parseRetryAfter, tryTokenExchange,
   tryUserApi, probeAccount, probeAll *)

(* normalizeDomain strips the scheme and the trailing slash; on a value that
   is not a string, String.prototype.replace does not exist and the call
   throws: thrown is then TRUE. *)
normalizeDomain(domain) ==
    [thrown |-> ~domain.defined, value |-> domain.host]

tokenExchangeURL(domain) ==
    IF domain = GitHub
    THEN [thrown |-> FALSE, value |-> "https://api.github.com/copilot_internal/v2/token"]
    ELSE LET normalized == normalizeDomain(domain)
         IN  [thrown |-> normalized.thrown,
              value |-> "https://api." \o normalized.value \o "/copilot_internal/v2/token"]

userApiURL(domain) ==
    IF domain = GitHub
    THEN [thrown |-> FALSE, value |-> "https://api.github.com/user"]
    ELSE LET normalized == normalizeDomain(domain)
         IN  [thrown |-> normalized.thrown,
              value |-> "https://" \o normalized.value \o "/api/v3/user"]

(* A parse that reads numeric seconds only. *)
probeParseRetryAfterSecondsOnly(response, t) ==
    IF response.retryAfter.kind = "seconds" THEN {response.retryAfter.v * 1000} ELSE {}

probeParseRetryAfter(response, t) ==
    LET header == response.retryAfter
    IN  IF header.kind = "absent" THEN {}
        ELSE IF header.kind = "seconds" THEN {header.v * 1000}
        ELSE IF header.kind = "date" THEN {Max(0, header.v - t)}
        ELSE {}

(* A ProbeResult; the optional fields are sets of at most one element. *)
ProbeResult(id, status, httpStatus, method) ==
    [id |-> id, status |-> status, httpStatus |-> httpStatus, retryAfterMs |-> {},
     quotaResetDate |-> {}, username |-> {}, method |-> method]

(* A response body: text that response.json() rejects, or a JSON object with
   the fields the prober reads, each a set of at most one element.  A message
   is a sequence of words. *)
Unparsable == [parsable |-> FALSE, limited_user_quotas |-> {},
               limited_user_reset_date |-> {}, message |-> {}, login |-> {}]

Json == [Unparsable EXCEPT !.parsable = TRUE]

Quotas(chat, completions) == [chat |-> chat, completions |-> completions]

RateLimitPrefix == << "API", "rate", "limit", "exceeded" >>

startsWith(str, prefix) ==
    Len(str) >= Len(prefix) /\ SubSeq(str, 1, Len(prefix)) = prefix

(* What the network may do with a request at time t: fail (a network error,
   or the abort of the probe's timer), or answer. *)
Failure ==
    [failed |-> TRUE,
     response |-> [status |-> 0, retryAfter |-> NoHeader, body |-> Unparsable]]

Answer(status, retryAfter, body) ==
    [failed |-> FALSE,
     response |-> [status |-> status, retryAfter |-> retryAfter, body |-> body]]

(* Seconds, as limited_user_reset_date counts them. *)
Seconds(ms) == ms \div 1000

ExchangeOutcomes(t) ==
    {Failure}
    \cup {Answer(st, NoHeader, Json) : st \in {404, 401, 500}}
    \cup {Answer(TOO_MANY_REQUESTS, h, Unparsable) :
            h \in {NoHeader, Header("seconds", 0), Header("seconds", 700),
                   Header("date", t - 1000), Header("date", t + DEFAULT_RETRY_AFTER_MS),
                   Header("garbage", 0)}}
    \cup {Answer(200, NoHeader, b) :
            b \in {Unparsable, Json,
                   [Json EXCEPT !.limited_user_quotas = {Quotas({5}, {0})}],
                   [Json EXCEPT !.limited_user_quotas = {Quotas({}, {0})}],
                   [Json EXCEPT !.limited_user_quotas = {Quotas({0}, {0})}],
                   [Json EXCEPT !.limited_user_quotas = {Quotas({0}, {0})},
                                !.limited_user_reset_date = {0}],
                   [Json EXCEPT !.limited_user_quotas = {Quotas({0}, {-1})},
                                !.limited_user_reset_date = {Seconds(t) - 1}],
                   [Json EXCEPT !.limited_user_quotas = {Quotas({0}, {0})},
                                !.limited_user_reset_date = {Seconds(t) + 120}],
                   [Json EXCEPT !.limited_user_quotas = {Quotas({-3}, {0})},
                                !.limited_user_reset_date = {Seconds(t) + 700}]}}
    \cup {Answer(403, h, b) :
            h \in {NoHeader, Header("seconds", 700)},
            b \in {Unparsable, Json,
                   [Json EXCEPT !.message = {RateLimitPrefix \o << "for", "user" >>}],
                   [Json EXCEPT !.message = {<< "Sorry:" >> \o RateLimitPrefix}],
                   [Json EXCEPT !.message = {<< "Resource", "not", "accessible" >>}]}}

UserApiOutcomes ==
    {Failure}
    \cup {Answer(st, NoHeader, Json) : st \in {401, 403, 404, 500}}
    \cup {Answer(403, Header("seconds", 700), Unparsable)}
    \cup {Answer(200, NoHeader, b) :
            b \in {Unparsable, Json, [Json EXCEPT !.login = {""}],
                   [Json EXCEPT !.login = {"octocat"}]}}

(* Falling through on a 404 only. *)
fallsThroughOn404Only(outcome) ==
    ~outcome.failed /\ outcome.response.status = 404

(* tryTokenExchange returns null: the answer is 404 or the fetch failed. *)
fallsThrough(outcome) ==
    outcome.failed \/ outcome.response.status = 404

(* One counter at or below 0 taken for exhaustion. *)
quotaExhaustedEither(body) ==
    /\ body.parsable
    /\ \E q \in body.limited_user_quotas :
           \/ \E chat \in q.chat : chat <= 0
           \/ \E completions \in q.completions : completions <= 0

(* The 200 body reports both tracked counters at or below 0. *)
quotaExhausted(body) ==
    /\ body.parsable
    /\ \E q \in body.limited_user_quotas :
           /\ \E chat \in q.chat : chat <= 0
           /\ \E completions \in q.completions : completions <= 0

(* The rate-limit text looked for anywhere in the message. *)
rateLimitMessageAnywhere(body) ==
    /\ body.parsable
    /\ \E message \in body.message :
           \E k \in 1..Len(message) :
               startsWith(SubSeq(message, k, Len(message)), RateLimitPrefix)

(* The 403 body carries a message that starts with the rate-limit text. *)
rateLimitMessage(body) ==
    /\ body.parsable
    /\ \E message \in body.message : startsWith(message, RateLimitPrefix)

(* The login never read. *)
usernameAbsent(body) == {}

(* body.login || undefined, undefined as well when the body does not parse. *)
username(body) ==
    IF body.parsable THEN {login \in body.login : login # ""} ELSE {}

(* An error path that looks the record up. *)
errorTouching(h, id) == getHealth(h, id)

(* An error result is returned without a call into the rotation module. *)
error(h, id) == h

(* tryTokenExchange from the moment its fetch settles: result {} is null. *)
tryTokenExchange(account, outcome, h, t) ==
    LET response == outcome.response
        body     == response.body
        id       == account.id
        result(status) == ProbeResult(id, status, {response.status}, "token_exchange")
    IN  IF fallsThrough(outcome) THEN [result |-> {}, health |-> h]
        ELSE IF response.status = TOO_MANY_REQUESTS
        THEN LET retryAfterMs == probeParseRetryAfter(response, t)
             IN  [result |-> {[result("rate_limited") EXCEPT !.retryAfterMs = retryAfterMs]},
                  health |-> markRateLimited(h, id, retryAfterMs, t)]
        ELSE IF response.status = 200
        THEN IF quotaExhausted(body)
             THEN LET resetDate == IF truthy(body.limited_user_reset_date)
                                   THEN {TheValue(body.limited_user_reset_date) * 1000}
                                   ELSE {}
                      retryAfterMs == IF truthy(resetDate)
                                      THEN {Max(0, TheValue(resetDate) - t)}
                                      ELSE {}
                  IN  [result |-> {[result("quota_exhausted") EXCEPT
                                       !.retryAfterMs = retryAfterMs,
                                       !.quotaResetDate = resetDate]},
                       health |-> markRateLimited(h, id, retryAfterMs, t)]
             ELSE [result |-> {result("ok")}, health |-> markSuccess(h, id, t)]
        ELSE IF response.status = 403
        THEN IF rateLimitMessage(body)
             THEN [result |-> {result("rate_limited")},
                   health |-> markRateLimited(h, id, {}, t)]
             ELSE [result |-> {result("error")}, health |-> error(h, id)]
        ELSE [result |-> {result("error")}, health |-> error(h, id)]

(* tryUserApi from the moment its fetch settles. *)
tryUserApi(account, outcome, h, t) ==
    LET response == outcome.response
        id       == account.id
        result(status) == ProbeResult(id, status, {response.status}, "user_api")
    IN  IF outcome.failed
        THEN [result |-> {ProbeResult(id, "error", {}, "user_api")},
              health |-> error(h, id)]
        ELSE IF response.status = 200
        THEN [result |-> {[result("ok") EXCEPT !.username = username(response.body)]},
              health |-> markSuccess(h, id, t)]
        ELSE IF response.status = 401
        THEN [result |-> {result("error")}, health |-> error(h, id)]
        ELSE IF response.status = 403
        THEN [result |-> {result("rate_limited")},
              health |-> markRateLimited(h, id, {}, t)]
        ELSE [result |-> {result("error")}, health |-> error(h, id)]

----------------------------------------------------------------------------
(* The rotation module after a history: account "a" has been marked rate
   limited k times in a row and has then had j successes, all at StartTime,
   which is what k probes answered 429 and j answered 200 leave behind. *)
MaxWear == 10

FewSuccesses == 5

RECURSIVE Worn(_, _)
Worn(k, j) ==
    IF j > 0 THEN markSuccess(Worn(k, j - 1), "a", StartTime)
    ELSE IF k > 0 THEN markRateLimited(Worn(k - 1, 0), "a", {}, StartTime)
    ELSE << >>

InitWorn ==
    /\ now = StartTime
    /\ marks = 0
    /\ store = << Account("a", 0), Account("b", 1) >>
    /\ \E k \in {0, 1, MaxWear - 1, MaxWear} : \E j \in {0, FewSuccesses} :
           health = Worn(k, j)
    /\ forgotten = {}
    /\ StoreInit
    /\ StreakInit
    /\ DispatchInit
    /\ ProbeInit

SpecWorn == InitWorn /\ [][NextRotation]_vars

----------------------------------------------------------------------------
(* probeAll and its probeAccount calls, one per element of the array, run
   concurrently with one another. *)

Enterprise == Domain("https://", "company.ghe.com", TRUE)

NoDomain == [Domain("", "", FALSE) EXCEPT !.defined = FALSE]

(* The arrays probeAll is called with: none, one account, two accounts (the
   second on an enterprise domain), and two of which the first was stored
   without a domain. *)
ProbeInputs ==
    { << >>,
      << Account("a", 0) >>,
      << Account("a", 0), [Account("b", 1) EXCEPT !.domain = Enterprise] >>,
      << [Account("c", 0) EXCEPT !.domain = NoDomain], Account("a", 1) >> }

(* A fetch call of the prober; settled is {} while the call is pending and
   then says whether it failed and with which status it was answered. *)
Request(tier, url, account) ==
    [tier |-> tier, url |-> url, Authorization |-> "token " \o account.token,
     settled |-> {}]

Settled(request, outcome) ==
    [request EXCEPT !.settled = {[failed |-> outcome.failed,
                                  status |-> outcome.response.status]}]

(* probeAll is called: accounts.map starts every probeAccount, each of which
   runs up to its first await: tokenExchangeURL, which may throw, and the
   tier-1 fetch. *)
(* The signal a fetch call is given: once the controller has aborted, the
   call rejects, whatever the network does. *)
Aborted(i, outcome) == timers[i].state = "fired" => outcome = Failure

(* finally { clearTimeout(timer) }: a timer that has fired stays fired. *)
clearTimeout(timer) ==
    IF timer.state = "armed" THEN [timer EXCEPT !.state = "cleared"] ELSE timer

probeAllCalled(accounts) ==
    /\ probing = "idle"
    /\ probing' = "running"
    /\ probed' = accounts
    /\ stage' = [i \in 1..Len(accounts) |->
                   IF tokenExchangeURL(accounts[i].domain).thrown
                   THEN "rejected" ELSE "tier1"]
    /\ requests' = [i \in 1..Len(accounts) |->
                      LET url == tokenExchangeURL(accounts[i].domain)
                      IN  IF url.thrown THEN << >>
                          ELSE << Request("token_exchange", url.value, accounts[i]) >>]
    /\ results' = [i \in 1..Len(accounts) |-> {}]
    /\ timers' = [i \in 1..Len(accounts) |->
                    [state |-> IF tokenExchangeURL(accounts[i].domain).thrown
                               THEN "cleared" ELSE "armed",
                     at |-> now + PROBE_TIMEOUT_MS]]
    /\ UNCHANGED <<now, marks, store, storeVars, forgotten, streak, health, dispatchVars, map>>

(* The tier-1 fetch of probe i settles: tryTokenExchange runs to its return
   and, on null, probeAccount goes on to the tier-2 fetch. *)
tier1Settled(i, outcome) ==
    /\ probing = "running"
    /\ stage[i] = "tier1"
    /\ Aborted(i, outcome)
    /\ LET exchangeResult == tryTokenExchange(probed[i], outcome, health, now)
       IN  /\ health' = exchangeResult.health
           /\ IF exchangeResult.result # {}
              THEN /\ stage' = [stage EXCEPT ![i] = "fulfilled"]
                   /\ results' = [results EXCEPT ![i] = exchangeResult.result]
                   /\ requests' = [requests EXCEPT ![i] = << Settled(@[1], outcome) >>]
                   /\ timers' = [timers EXCEPT ![i] = clearTimeout(@)]
              ELSE /\ stage' = [stage EXCEPT ![i] = "tier2"]
                   /\ requests' = [requests EXCEPT ![i] =
                          << Settled(@[1], outcome),
                             Request("user_api", userApiURL(probed[i].domain).value,
                                     probed[i]) >>]
                   /\ UNCHANGED <<results, timers>>
    /\ UNCHANGED <<now, marks, store, storeVars, forgotten, dispatchVars, probing, probed, map>>
    /\ ProbeCounted(probed[i].id, tryTokenExchange(probed[i], outcome, health, now).result)

(* The tier-2 fetch of probe i settles: tryUserApi runs to its return. *)
tier2Settled(i, outcome) ==
    /\ probing = "running"
    /\ stage[i] = "tier2"
    /\ Aborted(i, outcome)
    /\ timers' = [timers EXCEPT ![i] = clearTimeout(@)]
    /\ LET r == tryUserApi(probed[i], outcome, health, now)
       IN  /\ health' = r.health
           /\ results' = [results EXCEPT ![i] = r.result]
    /\ stage' = [stage EXCEPT ![i] = "fulfilled"]
    /\ requests' = [requests EXCEPT ![i] = << @[1], Settled(@[2], outcome) >>]
    /\ UNCHANGED <<now, marks, store, storeVars, forgotten, dispatchVars, probing, probed, map>>
    /\ ProbeCounted(probed[i].id, tryUserApi(probed[i], outcome, health, now).result)

(* A timer whose callback does not abort. *)
timerFiredIdly(i) ==
    /\ probing = "running"
    /\ stage[i] \in {"tier1", "tier2"}
    /\ timers[i].state = "armed"
    /\ now >= timers[i].at
    /\ timers' = [timers EXCEPT ![i].state = "cleared"]
    /\ UNCHANGED <<now, marks, store, storeVars, forgotten, streak, health, dispatchVars, probing,
                   probed, stage, requests, results, map>>

(* The timer of probe i fires while the probe is pending: controller.abort(). *)
timerFired(i) ==
    /\ probing = "running"
    /\ stage[i] \in {"tier1", "tier2"}
    /\ timers[i].state = "armed"
    /\ now >= timers[i].at
    /\ timers' = [timers EXCEPT ![i].state = "fired"]
    /\ UNCHANGED <<now, marks, store, storeVars, forgotten, streak, health, dispatchVars, probing,
                   probed, stage, requests, results, map>>

(* A loop that keeps the fulfilled results only. *)
RECURSIVE mapFromFulfilled(_, _, _, _, _)
mapFromFulfilled(accounts, settled, values, i, m) ==
    IF i > Len(accounts) THEN m
    ELSE IF settled[i] # "fulfilled" THEN mapFromFulfilled(accounts, settled, values, i + 1, m)
    ELSE mapFromFulfilled(accounts, settled, values, i + 1,
             [j \in DOMAIN m \cup {accounts[i].id} |->
                 IF j = accounts[i].id THEN TheValue(values[i]) ELSE m[j]])

(* The loop of probeAll over the settled promises. *)
RECURSIVE mapFrom(_, _, _, _, _)
mapFrom(accounts, settled, values, i, m) ==
    IF i > Len(accounts) THEN m
    ELSE LET id == accounts[i].id
             r  == IF settled[i] = "fulfilled" THEN TheValue(values[i])
                   ELSE ProbeResult(id, "error", {}, "token_exchange")
         IN  mapFrom(accounts, settled, values, i + 1,
                     [j \in DOMAIN m \cup {id} |-> IF j = id THEN r ELSE m[j]])

(* Promise.allSettled resolves once every probeAccount has settled, and
   probeAll returns the map. *)
probeAllReturned ==
    /\ probing = "running"
    /\ \A i \in DOMAIN stage : stage[i] \in {"fulfilled", "rejected"}
    /\ probing' = "returned"
    /\ map' = mapFrom(probed, stage, results, 1, << >>)
    /\ UNCHANGED <<now, marks, store, storeVars, forgotten, streak, health, dispatchVars, probed, stage,
                   requests, results, timers>>

InitProbe ==
    /\ now = StartTime
    /\ marks = 0
    /\ store = << >>
    /\ health \in {Worn(0, 0), Worn(1, 0), Worn(1, FewSuccesses)}
    /\ forgotten = {}
    /\ StoreInit
    /\ StreakInit
    /\ DispatchInit
    /\ ProbeInit

NextProbe ==
    \/ \E t \in Instants : Tick(t)
    \/ \E accounts \in ProbeInputs : probeAllCalled(accounts)
    \/ \E i \in DOMAIN stage : \E outcome \in ExchangeOutcomes(now) : tier1Settled(i, outcome)
    \/ \E i \in DOMAIN stage : \E outcome \in UserApiOutcomes : tier2Settled(i, outcome)
    \/ \E i \in DOMAIN stage : timerFired(i)
    \/ probeAllReturned

SpecProbe == InitProbe /\ [][NextProbe]_vars

(* The same, with what the runtime guarantees and nothing about the network:
   time passes, a timer that is due fires, a fetch whose signal has aborted
   rejects, and a promise whose parts have all settled resolves. *)
MaxProbes == 2

FairnessProbe ==
    /\ WF_vars(\E t \in Instants : Tick(t))
    /\ WF_vars(probeAllReturned)
    /\ \A i \in 1..MaxProbes :
           /\ WF_vars(i \in DOMAIN stage /\ timerFired(i))
           /\ WF_vars(i \in DOMAIN stage /\ timers[i].state = "fired"
                                         /\ tier1Settled(i, Failure))
           /\ WF_vars(i \in DOMAIN stage /\ timers[i].state = "fired"
                                         /\ tier2Settled(i, Failure))

FairSpecProbe == SpecProbe /\ FairnessProbe

----------------------------------------------------------------------------
(* Dispatches and a probe at the same time, on the same stored accounts: the
   accounts command probes what list() returned while copilotFetch calls are
   in flight.  The transport and the network answer with a success, with a 429
   that opens a window, with a 429 whose window has ended at once
   (retry-after 0), or fail. *)
MixedPools == { << Account("a", 0) >> }

MixedResponses ==
    { [status |-> 200, retryAfter |-> NoHeader, body |-> "{}"],
      [status |-> TOO_MANY_REQUESTS, retryAfter |-> NoHeader, body |-> ""],
      [status |-> TOO_MANY_REQUESTS, retryAfter |-> Header("seconds", 0), body |-> ""] }

MixedExchangeOutcomes ==
    { Failure,
      Answer(200, NoHeader, Json),
      Answer(TOO_MANY_REQUESTS, NoHeader, Unparsable),
      Answer(TOO_MANY_REQUESTS, Header("seconds", 0), Unparsable) }

MixedUserApiOutcomes == { Answer(200, NoHeader, Json), Answer(403, NoHeader, Unparsable) }

InitMixed ==
    /\ now = StartTime
    /\ marks = 0
    /\ store \in MixedPools
    /\ health = << >>
    /\ forgotten = {}
    /\ StoreInit
    /\ StreakInit
    /\ DispatchInit
    /\ ProbeInit

NextMixed ==
    \/ \E t \in Instants : Tick(t)
    \/ \E c \in Calls : fetchCalled(c)
    \/ \E c \in Calls : pickResolved(c)
    \/ \E c \in Calls : \E response \in MixedResponses : transportAnswered(c, response)
    \/ \E c \in Calls : transportFailed(c)
    \/ \E c \in Calls : recoveryResolved(c)
    \/ probeAllCalled(list(store))
    \/ \E i \in DOMAIN stage : \E outcome \in MixedExchangeOutcomes : tier1Settled(i, outcome)
    \/ \E i \in DOMAIN stage : \E outcome \in MixedUserApiOutcomes : tier2Settled(i, outcome)
    \/ \E i \in DOMAIN stage : timerFired(i)
    \/ probeAllReturned

SpecMixed == InitMixed /\ [][NextMixed]_vars

----------------------------------------------------------------------------
(* The store and the accounts command.  Accounts come from the login flow,
   whose callback gives each a fresh id and the priority Date.now(); the
   command removes and reorders them.  A storage function runs from its load
   to the end of its save in one step, and one command is in hand at a time,
   while the login flow, the rotation module and the clock go on between the
   awaits of the command. *)

MaxElapsed == 1

(* The ids crypto.randomUUID() gives, one after the other. *)
IdOrder == << "a", "b", "c" >>

(* What the user may type as a name: a label, an id (the ids of the model are
   one character long, so an id has no prefix but itself), or neither. *)
Names == {"work", "home", "b", "nobody"}

NameLists ==
    {<< >>} \cup {<<n>> : n \in Names}
    \cup { <<"home", "work">>, <<"work", "nobody">>, <<"b", "b">> }

idStartsWith(id, name) == id = name

(* accounts.find(label === name) ?? accounts.find(id.startsWith(name)), as a
   sequence of at most one account. *)
find(accounts, name) ==
    LET first(S) == IF S = {} THEN << >>
                    ELSE << accounts[CHOOSE i \in S : \A j \in S : i <= j] >>
        byLabel == {i \in DOMAIN accounts : accounts[i].label = name}
        byId    == {i \in DOMAIN accounts : idStartsWith(accounts[i].id, name)}
    IN  IF byLabel # {} THEN first(byLabel) ELSE first(byId)

(* What the user enters in the login flow: a label, and github.com or an
   enterprise URL, of which the host is stored. *)
Enrolments ==
    { [label |-> "home", domain |-> GitHub],
      [label |-> "work", domain |-> Domain("", normalizeDomain(Enterprise).value, FALSE)] }

(* save(store): the array is written, then auth.json is synced with it. *)
save(st) ==
    /\ store' = st
    /\ auth' = syncAuthJson(st, auth)

(* The login flow has its access token: the account is made and added. *)
callback(label, domain) ==
    /\ Len(enrolled.order) < Len(IdOrder)
    /\ LET id == IdOrder[Len(enrolled.order) + 1]
           account == [Account(id, now) EXCEPT !.label = label, !.domain = domain]
       IN  /\ save(add(store, account))
           /\ enrolled' = [enrolled EXCEPT !.order = Append(@, id)]
    /\ UNCHANGED <<now, marks, cmd, adders, called, taken, probeVars, forgotten, streak, health, dispatchVars>>

(* storage.reorder called with any array of ids. *)
callReorder(ids) ==
    /\ save(reorder(store, ids))
    /\ enrolled' = [enrolled EXCEPT !.reordered = @ \/ enrolled.order # << >>]
    /\ called' = NoCall
    /\ UNCHANGED <<now, marks, cmd, adders, taken, probeVars, forgotten, streak, health, dispatchVars>>

(* handleAccounts is called with "remove ..." or "reorder ...": parseArgs, and
   without a name the error is returned at once; else the call runs up to its
   await list(). *)
handleAccounts(action, names) ==
    /\ cmd.pc \in {"idle", "returned"}
    /\ action = "remove" => Len(names) <= 1
    /\ cmd' = IF names = << >>
              THEN [NoCommand EXCEPT !.action = action, !.pc = "returned",
                        !.answer = IF action = "remove" THEN "Error: username is required."
                                   ELSE "Error: usernames are required."]
              ELSE [NoCommand EXCEPT !.action = action, !.names = names, !.pc = "list"]
    /\ UNCHANGED <<now, marks, store, auth, enrolled, adders, called, taken, probeVars, forgotten, streak, health,
                   dispatchVars>>

(* The names that are looked up before the first one that no account
   matches, or all of them. *)
lookedUp(accounts, names) ==
    LET unknown == {i \in DOMAIN names : find(accounts, names[i]) = << >>}
        n == IF unknown = {} THEN Len(names)
             ELSE (CHOOSE i \in unknown : \A j \in unknown : i <= j) - 1
    IN  [i \in 1..n |-> find(accounts, names[i])[1]]

(* A command that reorders the accounts it has found when it meets a name
   that no account matches. *)
listResolvedEager ==
    /\ cmd.pc = "list"
    /\ LET accounts == list(store)
           found == lookedUp(accounts, cmd.names)
       IN  IF Len(found) < Len(cmd.names)
           THEN /\ cmd' = [cmd EXCEPT !.pc = "returned", !.names = << >>, !.found = found,
                                 !.answer = "Error: no account found"]
                /\ save(reorder(store, [i \in DOMAIN found |-> found[i].id]))
           ELSE /\ cmd' = [cmd EXCEPT !.pc = "store", !.found = found]
                /\ UNCHANGED <<store, auth>>
    /\ UNCHANGED <<now, marks, enrolled, adders, called, taken, probeVars, forgotten, streak,
                   health, dispatchVars>>

(* list() resolves: the names are looked up one after the other; a name that
   no account matches ends the command with an error, the accounts found so
   far (ids) unused; else it runs up to its await remove() or reorder(). *)
listResolved ==
    /\ cmd.pc = "list"
    /\ LET accounts == list(store)
           found == lookedUp(accounts, cmd.names)
       IN  cmd' = IF Len(found) < Len(cmd.names)
                  THEN [cmd EXCEPT !.pc = "returned", !.names = << >>, !.found = found,
                            !.answer = "Error: no account found"]
                  ELSE [cmd EXCEPT !.pc = "store", !.found = found]
    /\ UNCHANGED <<now, marks, store, auth, enrolled, adders, called, taken, probeVars, forgotten, streak, health,
                   dispatchVars>>

(* remove(account.id) runs. *)
removeResolved ==
    /\ cmd.pc = "store" /\ cmd.action = "remove"
    /\ save(remove(store, cmd.found[1].id))
    /\ cmd' = [cmd EXCEPT !.pc = "reset", !.names = << >>, !.remaining = Len(store')]
    /\ UNCHANGED <<now, marks, enrolled, adders, called, taken, probeVars, forgotten, streak, health, dispatchVars>>

(* An accounts command that leaves the health record where it is. *)
removeReturnedKeepingHealth ==
    /\ cmd.pc = "reset"
    /\ cmd' = [cmd EXCEPT !.pc = "returned", !.answer = "Removed"]
    /\ UNCHANGED <<now, marks, store, auth, enrolled, adders, called, taken, probeVars, forgotten, streak, health,
                   dispatchVars>>

(* The continuation of the remove command: resetHealth(account.id), return. *)
removeReturned ==
    /\ cmd.pc = "reset"
    /\ health' = resetHealth(health, cmd.found[1].id)
    /\ forgotten' = IF cmd.found[1].id \in DOMAIN health
                       /\ now < health[cmd.found[1].id].rate_limited_until
                    THEN forgotten \cup {cmd.found[1].id} ELSE forgotten
    /\ Counted({}, {})
    /\ cmd' = [cmd EXCEPT !.pc = "returned", !.answer = "Removed"]
    /\ Detached(cmd.found[1].id)
    /\ UNCHANGED <<now, marks, store, auth, enrolled, adders, called, probeVars, dispatchVars>>

(* reorder(ids) runs and the reorder command returns. *)
reorderResolved ==
    /\ cmd.pc = "store" /\ cmd.action = "reorder"
    /\ save(reorder(store, [i \in DOMAIN cmd.found |-> cmd.found[i].id]))
    /\ enrolled' = [enrolled EXCEPT !.reordered = TRUE]
    /\ cmd' = [cmd EXCEPT !.pc = "returned", !.names = << >>,
                    !.answer = "Accounts reordered successfully."]
    /\ UNCHANGED <<now, marks, adders, called, taken, probeVars, forgotten, streak, health, dispatchVars>>

(* Arrays of ids: none, some of the stored ones, all of them, with an id
   given twice and with an id ("zz") that no account has. *)
ReorderArgs ==
    { << >>, <<"b">>, <<"c", "a">>, <<"c", "b", "a">>, <<"b", "b", "a">>,
      <<"zz", "b">>, <<"c", "zz", "c">> }

InitStore ==
    /\ now = StartTime
    /\ marks = 0
    /\ store = << >>
    /\ health = << >>
    /\ forgotten = {}
    /\ StoreInit
    /\ StreakInit
    /\ DispatchInit
    /\ ProbeInit

NextStore ==
    \/ \E t \in {now + 1} : t <= StartTime + MaxElapsed /\ Tick(t)
    \/ \E entered \in Enrolments : callback(entered.label, entered.domain)
    \/ \E action \in {"remove", "reorder"}, names \in NameLists : handleAccounts(action, names)
    \/ listResolved
    \/ removeResolved
    \/ removeReturned
    \/ reorderResolved
    \/ \E ids \in ReorderArgs : callReorder(ids)
    \/ \E id \in idsOf(store) : marks = 0 /\ callMarkRateLimited(id, {})

SpecStore == InitStore /\ [][NextStore]_vars

----------------------------------------------------------------------------
(* The remove command while copilotFetch calls are in flight: the command and
   the calls take their steps in any order, and list() gives each of them the
   array as it is stored when their read resolves. *)

RemovalPools == { << Account("a", 0), Account("b", 1) >> }

(* One call is in flight at a time. *)
RemovalCalls == {1}

(* The name typed: the id of the first account, the label of the second. *)
RemovalNames == { << "a" >>, << "label-b" >> }

InitRemoval ==
    /\ now = StartTime
    /\ marks = 0
    /\ store \in RemovalPools
    /\ health = << >>
    /\ forgotten = {}
    /\ StoreInit
    /\ StreakInit
    /\ DispatchInit
    /\ ProbeInit

NextRemoval ==
    \/ \E t \in Instants : Tick(t)
    \/ \E c \in RemovalCalls : fetchCalled(c)
    \/ \E c \in RemovalCalls : pickResolved(c)
    \/ \E c \in RemovalCalls : \E response \in MixedResponses : transportAnswered(c, response)
    \/ \E c \in RemovalCalls : transportFailed(c)
    \/ \E c \in RemovalCalls : recoveryResolved(c)
    \/ \E names \in RemovalNames : handleAccounts("remove", names)
    \/ listResolved
    \/ removeResolved
    \/ removeReturned

SpecRemoval == InitRemoval /\ [][NextRemoval]_vars

----------------------------------------------------------------------------
(* add() calls that overlap in time, as two login flows that get their tokens
   together make them.  add() runs from await to await: load() reads the
   accounts file; the array read is changed and writeJson puts it in the place
   of the file; syncAuthJson writes auth.json from the same array. *)

ConcurrentPools == { << >>, << Account("c", 0) >> }

(* The account each of the calls is given: its own id, priority Date.now(). *)
AdderId == [p \in Adders |-> IF p = "p1" THEN "a" ELSE "b"]

(* add(account) is called and runs up to its await load(). *)
addCalled(p) ==
    /\ adders[p].pc \in {"idle", "done"}
    /\ adders' = [adders EXCEPT ![p] = [pc |-> "load", account |-> {Account(AdderId[p], now)},
                                        accounts |-> << >>]]
    /\ UNCHANGED <<now, marks, store, auth, cmd, enrolled, called, taken, probeVars, forgotten,
                   streak, health, dispatchVars>>

(* load() resolves: the account is put into the array that was read, and
   save() runs up to the end of its writeJson. *)
addLoaded(p) ==
    /\ adders[p].pc = "load"
    /\ adders' = [adders EXCEPT ![p].pc = "write",
                                ![p].accounts = add(store, TheValue(adders[p].account))]
    /\ UNCHANGED <<now, marks, store, auth, cmd, enrolled, called, taken, probeVars, forgotten,
                   streak, health, dispatchVars>>

(* writeJson has renamed its file into the place of the accounts file. *)
addWritten(p) ==
    /\ adders[p].pc = "write"
    /\ store' = adders[p].accounts
    /\ adders' = [adders EXCEPT ![p].pc = "sync"]
    /\ UNCHANGED <<now, marks, auth, cmd, enrolled, called, taken, probeVars, forgotten,
                   streak, health, dispatchVars>>

(* syncAuthJson has written auth.json, and add() returns. *)
addSynced(p) ==
    /\ adders[p].pc = "sync"
    /\ auth' = syncAuthJson(adders[p].accounts, auth)
    /\ adders' = [adders EXCEPT ![p].pc = "done"]
    /\ UNCHANGED <<now, marks, store, cmd, enrolled, called, taken, probeVars, forgotten,
                   streak, health, dispatchVars>>

InitConcurrent ==
    /\ now = StartTime
    /\ marks = 0
    /\ store \in ConcurrentPools
    /\ health = << >>
    /\ forgotten = {}
    /\ StoreInit
    /\ StreakInit
    /\ DispatchInit
    /\ ProbeInit

NextConcurrent ==
    \/ \E t \in {now + 1} : t <= StartTime + MaxElapsed /\ Tick(t)
    \/ \E p \in Adders : addCalled(p)
    \/ \E p \in Adders : addLoaded(p)
    \/ \E p \in Adders : addWritten(p)
    \/ \E p \in Adders : addSynced(p)

SpecConcurrent == InitConcurrent /\ [][NextConcurrent]_vars

----------------------------------------------------------------------------
(* The storage module called directly, in any order, by any caller (the login
   flow, the commands, the tests): add with any account, remove with any id,
   reorder with any array of ids. *)

MaxPriority == 2

(* The accounts a caller may pass to add: any of the ids with any priority,
   and an account "a" with another label and token. *)
AddArgs ==
    {Account(id, priority) : id \in Ids, priority \in 0..MaxPriority}
    \cup {[Account("a", priority) EXCEPT !.label = "updated", !.token = "t2"] :
              priority \in 0..MaxPriority}

callAdd(account) ==
    /\ save(add(store, account))
    /\ called' = [op |-> "add", arg |-> account, before |-> store]
    /\ UNCHANGED <<now, marks, cmd, enrolled, adders, taken, probeVars, forgotten, streak,
                   health, dispatchVars>>

callRemove(id) ==
    /\ save(remove(store, id))
    /\ called' = [op |-> "remove", arg |-> id, before |-> store]
    /\ UNCHANGED <<now, marks, cmd, enrolled, adders, taken, probeVars, forgotten, streak,
                   health, dispatchVars>>

InitStorage ==
    /\ now = StartTime
    /\ marks = 0
    /\ store = << >>
    /\ health = << >>
    /\ forgotten = {}
    /\ StoreInit
    /\ StreakInit
    /\ DispatchInit
    /\ ProbeInit

NextStorage ==
    \/ \E account \in AddArgs : callAdd(account)
    \/ \E id \in Ids \cup {"zz"} : callRemove(id)
    \/ \E ids \in ReorderArgs : callReorder(ids)

SpecStorage == InitStorage /\ [][NextStorage]_vars

----------------------------------------------------------------------------
(* What the claims speak of, said without the code's operators. *)

Stored == {store[i] : i \in 1..Len(store)}

(* The account is available: rate_limited_until is 0 (a missing record counts
   as a fresh one) or has already been reached. *)
Available(id) ==
    \/ id \notin DOMAIN health
    \/ health[id].rate_limited_until = 0
    \/ now >= health[id].rate_limited_until

InWindow(id) == ~Available(id)

----------------------------------------------------------------------------
(* C1: for every pool, health state, current time and exclusion set E, pick(E)
   returns a stored account that is not in E and is available and whose
   priority value is the smallest among such accounts, and it returns none
   exactly when there is no such account. *)
C1_PickLowestAvailable ==
    \A E \in SUBSET Ids :
        LET r == pick(list(store), health, now, E)
            candidates == {a \in Stored : a.id \notin E /\ Available(a.id)}
        IN  /\ r.found = {} <=> candidates = {}
            /\ r.found \subseteq candidates
            /\ \A p \in r.found : \A a \in candidates : p.priority <= a.priority

(* A pick has skipped an excluded account and one inside its window and has
   returned the third (only pick's scan leaves a fresh record behind while the
   first account has none), in a store whose file order is not the priority
   order. *)
C1_Witness ==
    LET accounts == list(store)
    IN  /\ Len(accounts) = 3
        /\ store # accounts
        /\ accounts[1].id \notin DOMAIN health
        /\ accounts[2].id \in DOMAIN health /\ InWindow(accounts[2].id)
        /\ accounts[3].id \in DOMAIN health
        /\ health[accounts[3].id] = FreshHealth(accounts[3].id)
        /\ pick(accounts, health, now, {accounts[1].id}).found = {accounts[3]}

----------------------------------------------------------------------------
(* The accounts a call may still attempt: stored, not yet tried by this call,
   available now. *)
Untried(c) == {a \in Stored : a.id \notin tried[c] /\ Available(a.id)}

Lowest(S) == {a \in S : \A b \in S : a.priority <= b.priority}

Last(seq) == seq[Len(seq)]

(* C2: failover within one copilotFetch call.  After a 429 the next attempt
   goes to a highest-priority available account not yet tried in this call
   and carries its token, and there is a next attempt whenever such an
   account exists. *)
C2_NextAttempt ==
    \A c \in Calls :
        (pc[c] = "pick" /\ answers[c] # << >> /\ pc'[c] # "pick") =>
            /\ Last(answers[c]) = TOO_MANY_REQUESTS
            /\ IF Untried(c) = {}
               THEN pc'[c] = "recovery" /\ sent'[c] = sent[c]
               ELSE /\ pc'[c] = "fetch"
                    /\ current'[c] \subseteq Lowest(Untried(c))
                    /\ \E a \in current'[c] :
                           sent'[c] = Append(sent[c], "Bearer " \o a.token)

(* C2: a call ends at the first answer that is not a 429 and returns it. *)
C2_FirstNon429Returned ==
    \A c \in Calls :
        /\ Len(answers[c]) \in {Len(sent[c]), Len(sent[c]) - 1}
        /\ \A i \in 1..Len(answers[c]) :
               answers[c][i] # TOO_MANY_REQUESTS =>
                   /\ i = Len(answers[c])
                   /\ pc[c] = "done"
                   /\ \E r \in resp[c] : ~r.synth /\ r.status = answers[c][i]
        /\ \A r \in resp[c] : ~r.synth =>
               /\ answers[c] # << >> /\ Last(answers[c]) = r.status
               /\ r.status # TOO_MANY_REQUESTS

(* C2: accounts A (priority 0) and B (priority 1), both available, a call on
   its own, a transport that answers 429 then 200: two transport calls, the
   first with A's token, the second with B's, and the 200 is returned. *)
C2_Scenario ==
    \A c \in Calls :
        (/\ store = << Account("a", 0), Account("b", 1) >>
         /\ \A d \in Calls \ {c} : pc[d] = "idle"
         /\ Len(answers[c]) >= 2
         /\ answers[c][1] = TOO_MANY_REQUESTS /\ answers[c][2] = 200) =>
            /\ sent[c] = << "Bearer token-a", "Bearer token-b" >>
            /\ answers[c] = << TOO_MANY_REQUESTS, 200 >>
            /\ pc[c] = "done"
            /\ \E r \in resp[c] : ~r.synth /\ r.status = 200

(* C2, the three parts together. *)
C2_Failover ==
    [](C2_FirstNon429Returned /\ C2_Scenario) /\ [][C2_NextAttempt]_vars

(* The scenario has run to its end. *)
C2_Witness ==
    /\ store = << Account("a", 0), Account("b", 1) >>
    /\ pc[2] = "idle" /\ pc[1] = "done"
    /\ answers[1] = << TOO_MANY_REQUESTS, 200 >>
    /\ sent[1] = << "Bearer token-a", "Bearer token-b" >>

----------------------------------------------------------------------------
StoredIds == {a.id : a \in Stored}

Synthesized(c) == {r \in resp[c] : r.synth}

RateLimitedMessage == "All accounts rate limited. Earliest recovery: "

ExhaustedMessage == "All accounts exhausted"

NoAccountsMessage == "No GitHub Copilot accounts configured"

NoDuplicates(seq) == \A i, j \in 1..Len(seq) : seq[i] = seq[j] => i = j

(* C3 as claimed: a call whose every attempt was answered 429 has attempted
   every account of the pool exactly once and returns a synthesized 429 that
   reports exhaustion. *)
C3_Original ==
    \A c \in Calls :
        (pc[c] = "done" /\ sent[c] # << >> /\ Synthesized(c) # {}) =>
            /\ tried[c] = StoredIds
            /\ Len(sent[c]) = Len(store) /\ NoDuplicates(sent[c])
            /\ \A r \in Synthesized(c) :
                   /\ r.status = TOO_MANY_REQUESTS
                   /\ r.error \in {RateLimitedMessage, ExhaustedMessage}

(* C3 amended, the end of the call: every attempt was answered 429, no
   account was attempted twice, and the synthesized 429 reports exhaustion;
   a call that ran on its own on fresh health has attempted every account. *)
C3_Exhausted ==
    \A c \in Calls :
        (pc[c] = "done" /\ sent[c] # << >> /\ Synthesized(c) # {}) =>
            /\ \A i \in 1..Len(answers[c]) : answers[c][i] = TOO_MANY_REQUESTS
            /\ Len(answers[c]) = Len(sent[c])
            /\ NoDuplicates(sent[c])
            /\ {"Bearer " \o a.token : a \in {b \in Stored : b.id \in tried[c]}}
                   = {sent[c][i] : i \in 1..Len(sent[c])}
            /\ \A r \in Synthesized(c) :
                   /\ r.status = TOO_MANY_REQUESTS
                   /\ r.error \in {RateLimitedMessage, ExhaustedMessage}
                   /\ r.error = RateLimitedMessage <=> r.recovery # {}
            /\ (\A d \in Calls \ {c} : pc[d] = "idle") => tried[c] = StoredIds

(* C3 amended, the moment the call gives up: every account of the pool has
   been attempted by this call or is inside its rate-limit window. *)
C3_GivesUp ==
    \A c \in Calls :
        (pc[c] = "pick" /\ pc'[c] = "recovery") =>
            \A a \in Stored : a.id \in tried[c] \/ InWindow(a.id)

(* C3 amended: with 429 for every attempt, the call attempts exactly once
   every account that is available when the call comes to it, skips those
   inside a rate-limit window, and returns a synthesized 429 that reports
   exhaustion. *)
C3_AllAnswered429 == []C3_Exhausted /\ [][C3_GivesUp]_vars

(* A call has ended after attempting one of two accounts: the other was
   inside its window all along, so it was skipped. *)
C3_Witness ==
    \E c \in Calls :
        /\ pc[c] = "done" /\ Synthesized(c) # {}
        /\ Len(store) = 2 /\ Cardinality(tried[c]) = 1
        /\ \A a \in Stored : a.id \notin tried[c] => InWindow(a.id)

----------------------------------------------------------------------------
(* C4, within one call: no account id is attempted twice, and the transport
   calls never outnumber the accounts of the pool. *)
C4_Bounded ==
    \A c \in Calls :
        /\ NoDuplicates(sent[c])
        /\ Len(sent[c]) = Cardinality(tried[c])
        /\ tried[c] \subseteq StoredIds
        /\ Len(sent[c]) <= Len(store)

(* C4, within one call: the tried set only grows. *)
C4_TriedGrows == \A c \in Calls : tried[c] \subseteq tried'[c]

(* C4: every copilotFetch call terminates (it returns, or it rejects when a
   transport call throws) provided each transport call returns; the tried set
   only grows, no id is attempted twice, and there are at most as many
   transport calls as accounts in the pool. *)
C4_Terminates ==
    /\ []C4_Bounded
    /\ [][C4_TriedGrows]_vars
    /\ \A c \in Calls : (pc[c] # "idle") ~> (pc[c] \in {"done", "thrown"})

(* A call has ended after one attempt on each of three accounts. *)
C4_Witness ==
    \E c \in Calls :
        pc[c] = "done" /\ Len(store) = 3 /\ Len(sent[c]) = 3 /\ tried[c] = StoredIds

----------------------------------------------------------------------------
(* The step has applied mark_success to id, as the claims describe it: score
   raised by 1 up to 100, consecutive_failures 0, last_success now,
   rate_limited_until as it was, a record missing before counting as a fresh
   one, and no other record touched. *)
SuccessApplied(id) ==
    LET before == IF id \in DOMAIN health THEN health[id] ELSE FreshHealth(id)
    IN  /\ DOMAIN health' = DOMAIN health \cup {id}
        /\ \A j \in DOMAIN health \ {id} : health'[j] = health[j]
        /\ health'[id].score = Min(100, before.score + 1)
        /\ health'[id].consecutive_failures = 0
        /\ health'[id].last_success = now
        /\ health'[id].rate_limited_until = before.rate_limited_until
        /\ health'[id].last_failure = before.last_failure

(* C5, the answer: an answer with a status other than 429 has mark_success
   applied to the account of that attempt and ends the call with that very
   response, status, headers and body as the transport gave them. *)
C5_Answer ==
    \A c \in Calls : \A response \in Responses(now) :
        (transportAnswered(c, response) /\ response.status # TOO_MANY_REQUESTS) =>
            /\ \E a \in current[c] : SuccessApplied(a.id)
            /\ pc'[c] = "done"
            /\ sent'[c] = sent[c]
            /\ \E r \in resp'[c] : ~r.synth /\ r.response = response
                                   /\ r.status = response.status
            /\ Cardinality(resp'[c]) = 1

(* C5, afterwards: a call that has returned makes no further attempt and its
   response stays what it was. *)
C5_NoFurtherAttempt ==
    \A c \in Calls :
        pc[c] = "done" => pc'[c] = "done" /\ sent'[c] = sent[c] /\ resp'[c] = resp[c]

(* C5: a non-429 answer gets mark_success for the account used, ends the call
   and is returned unchanged. *)
C5_PassThrough == [][C5_Answer /\ C5_NoFurtherAttempt]_vars

(* A call has returned a 500 from its second attempt and the account of that
   attempt carries the success. *)
C5_Witness ==
    \E c \in Calls :
        /\ pc[c] = "done" /\ Len(sent[c]) = 2
        /\ \E r \in resp[c] : ~r.synth /\ r.status = 500 /\ r.response.body = "{}"
        /\ \E a \in current[c] : health[a.id].last_success = now
                                 /\ health[a.id].consecutive_failures = 0

(* C6: a call whose first pick found no available account makes no transport
   call and returns a synthesized 429 that says no accounts are configured
   when the pool is empty, and otherwise that all accounts are rate limited,
   with the earliest recovery time. *)
C6_NoneAvailableAtStart ==
    \A c \in Calls :
        (pc[c] = "done" /\ tried[c] = {}) =>
            /\ sent[c] = << >>
            /\ Cardinality(resp[c]) = 1
            /\ \A r \in resp[c] :
                   /\ r.synth /\ r.status = TOO_MANY_REQUESTS
                   /\ IF store = << >>
                      THEN r.error = NoAccountsMessage
                      ELSE r.error = RateLimitedMessage /\ r.recovery # {}

(* The case that breaks it: the pool holds accounts, the call made no attempt
   and its response says that no accounts are configured. *)
C6_Witness ==
    \E c \in Calls :
        /\ pc[c] = "done" /\ tried[c] = {} /\ sent[c] = << >>
        /\ store # << >>
        /\ \E r \in resp[c] : r.synth /\ r.error = NoAccountsMessage

(* C7 as claimed: every synthesized response has status 429 and a message
   that carries an earliest recovery time or says that no accounts are
   configured. *)
C7_Original ==
    \A c \in Calls : \A r \in Synthesized(c) :
        /\ r.status = TOO_MANY_REQUESTS
        /\ \/ r.error = RateLimitedMessage /\ r.recovery # {}
           \/ r.error = NoAccountsMessage

(* C7 amended, the response: a call that has returned holds exactly one
   response, and a synthesized one has status 429 and one of three messages:
   all accounts rate limited with a recovery time, no accounts configured
   (only when the call made no attempt), or all accounts exhausted (only
   after at least one attempt). *)
C7_Synthesized ==
    \A c \in Calls :
        /\ pc[c] = "done" => Cardinality(resp[c]) = 1
        /\ \A r \in Synthesized(c) :
               /\ r.status = TOO_MANY_REQUESTS
               /\ \/ r.error = RateLimitedMessage /\ r.recovery # {}
                  \/ r.error = NoAccountsMessage /\ r.recovery = {} /\ sent[c] = << >>
                  \/ r.error = ExhaustedMessage /\ r.recovery = {} /\ sent[c] # << >>

(* C7 amended, the recovery time: it is reported exactly when the pool is not
   empty and every stored account is inside its window when the response is
   built, and it is the earliest end of those windows. *)
C7_RecoveryIsEarliest ==
    \A c \in Calls :
        recoveryResolved(c) =>
            \A r \in resp'[c] :
                /\ r.synth
                /\ r.recovery # {} <=> (store # << >> /\ \A id \in StoredIds : InWindow(id))
                /\ \A u \in r.recovery :
                       /\ \E id \in StoredIds : health[id].rate_limited_until = u
                       /\ \A id \in StoredIds : health[id].rate_limited_until >= u

(* C7 amended: every synthesized response has status 429 and reports a
   recovery time, no accounts configured, or all accounts exhausted. *)
C7_ExhaustionAnswered == []C7_Synthesized /\ [][C7_RecoveryIsEarliest]_vars

(* The retry loop has run out of accounts twice: one call reports the
   earlier of two different window ends, the other that all accounts are
   exhausted. *)
C7_Witness ==
    \E c, d \in Calls :
        /\ pc[c] = "done" /\ sent[c] # << >>
        /\ \E r \in Synthesized(c) : r.error = ExhaustedMessage
        /\ pc[d] = "done" /\ sent[d] # << >>
        /\ \E r \in Synthesized(d) :
               /\ r.error = RateLimitedMessage
               /\ \E id \in StoredIds :
                      health[id].rate_limited_until > TheValue(r.recovery)

----------------------------------------------------------------------------
(* The record of id after its window has been cleared with the bonus. *)
Recovered(rec) ==
    [rec EXCEPT !.rate_limited_until = 0,
                !.score = IF rec.score + 10 > 100 THEN 100 ELSE rec.score + 10]

(* The window has been set and its end has been reached. *)
Elapsed(id) ==
    id \in DOMAIN health /\ health[id].rate_limited_until # 0
                         /\ now >= health[id].rate_limited_until

(* The stored accounts ahead of a in list() order. *)
Ahead(a) ==
    LET accounts == list(store)
    IN  {accounts[i].id : i \in {j \in 1..Len(accounts) :
                                    \E k \in j + 1..Len(accounts) : accounts[k] = a}}

(* The length of the window mark_rate_limited(id, d) sets: d, the default when
   d is absent, and never more than the maximum. *)
WindowLength(retryAfterMs) ==
    IF retryAfterMs = {} THEN DEFAULT_RETRY_AFTER_MS
    ELSE IF TheValue(retryAfterMs) > MAX_RETRY_AFTER_MS THEN MAX_RETRY_AFTER_MS
    ELSE TheValue(retryAfterMs)

(* C8, inside the window: whatever is excluded, pick() does not return an
   account whose window end is still ahead, and leaves its record alone. *)
C8_SkippedInWindow ==
    \A E \in SUBSET Ids : \A id \in DOMAIN health :
        InWindow(id) =>
            LET r == pick(list(store), health, now, E)
            IN  /\ \A p \in r.found : p.id # id
                /\ r.health[id] = health[id]

(* C8, at the end of the window: pick() returns the account once it is the
   first candidate, and the check has cleared the window and raised the score
   by 10, up to 100. *)
C8_ReturnedAfterWindow ==
    \A a \in Stored :
        Elapsed(a.id) =>
            LET r == pick(list(store), health, now, Ahead(a))
            IN  /\ r.found = {a}
                /\ r.health[a.id] = Recovered(health[a.id])

(* C8 as claimed, the window: mark_rate_limited(id, d) keeps id from pick()
   until now + d. *)
C8_WindowAsClaimed ==
    \A id \in Ids : \A ra \in RetryAfterArgs \ {{}} :
        callMarkRateLimited(id, ra) =>
            /\ health'[id].rate_limited_until # 0
            /\ health'[id].rate_limited_until >= now + TheValue(ra)

(* C8 amended, the window: mark_rate_limited(id, d) sets the end of the
   window to now + min(d, 600000), with 60000 for an absent d. *)
C8_WindowSet ==
    \A id \in Ids : \A ra \in RetryAfterArgs :
        callMarkRateLimited(id, ra) =>
            health'[id].rate_limited_until = now + WindowLength(ra)

(* C8, the checks: an availability check (in pick() or all_rate_limited())
   changes a record in one way only, clearing an elapsed window with the
   bonus; a record whose window is already cleared or still running is left
   as it is, so the bonus is granted once per window. *)
C8_BonusOnce ==
    ((\E E \in SUBSET Ids : callPick(E)) \/ callAllRateLimited) =>
        \A id \in DOMAIN health :
            /\ id \in DOMAIN health'
            /\ IF Elapsed(id) THEN health'[id] \in {health[id], Recovered(health[id])}
               ELSE health'[id] = health[id]

(* C8 as claimed: after mark_rate_limited(id, d) pick() does not return id
   before now + d; the first check at or after it clears the window and adds
   10 to the score (up to 100), once, and pick() returns id again. *)
C8_Original ==
    /\ [](C8_SkippedInWindow /\ C8_ReturnedAfterWindow)
    /\ [][C8_WindowAsClaimed /\ C8_BonusOnce]_vars

(* C8 amended: after mark_rate_limited(id, d) pick() does not return id
   before now + min(d, 600000) (60000 for an absent d) unless the record is
   marked again or reset; the first check at or after it clears the window
   and adds 10 to the score (up to 100), once, and pick() returns id again if
   it is the first candidate. *)
C8_WindowThenRecovery ==
    /\ [](C8_SkippedInWindow /\ C8_ReturnedAfterWindow)
    /\ [][C8_WindowSet /\ C8_BonusOnce]_vars

(* An account marked twice, the second time with more than the maximum, has
   been recovered by a check exactly 600000 ms after the mark, with the bonus
   taking its score from 80 to 90. *)
C8_Witness ==
    \E id \in StoredIds \cap DOMAIN health :
        /\ health[id].rate_limited_until = 0
        /\ health[id].consecutive_failures = 2
        /\ health[id].score = 90
        /\ now = health[id].last_failure + MAX_RETRY_AFTER_MS

----------------------------------------------------------------------------
(* C9: mark_success(id) raises the score by 1 up to 100, sets
   consecutive_failures to 0 and leaves rate_limited_until as it is, so an
   account inside its window is still inside it afterwards and no pick(),
   whatever it excludes, returns it. *)
C9_SuccessStep ==
    \A id \in Ids :
        callMarkSuccess(id) =>
            /\ SuccessApplied(id)
            /\ InWindow(id) =>
                   /\ InWindow(id)'
                   /\ \A E \in SUBSET Ids :
                          \A p \in pick(list(store), health', now', E).found : p.id # id

(* C9, between the successes: once inside a window, an account leaves it only
   when the clock reaches its end or the record is reset. *)
C9_WindowOutlasts ==
    \A id \in Ids :
        (InWindow(id) /\ ~InWindow(id)') =>
            \/ now' >= health[id].rate_limited_until
            \/ callResetHealth(id)

(* C9: mark_success raises the score by 1 (cap 100), resets
   consecutive_failures and leaves the window alone; an account inside its
   window stays unavailable whatever successes are reported, until the window
   elapses or the record is reset. *)
C9_SuccessKeepsWindow == [][C9_SuccessStep /\ C9_WindowOutlasts]_vars

(* A success has been reported for a stored account inside its window: the
   mark took the score to 90 and the success to 91 and the failure count back
   to 0, and the window is still running. *)
C9_Witness ==
    \E id \in StoredIds \cap DOMAIN health :
        /\ InWindow(id)
        /\ health[id].score = 91
        /\ health[id].consecutive_failures = 0
        /\ health[id].last_success >= health[id].last_failure

----------------------------------------------------------------------------
(* The delay of the window a mark has just opened. *)
Delay(id) == health'[id].rate_limited_until - now

(* C10 as claimed: mark_rate_limited sets rate_limited_until = now + delay
   with delay in [60000, 600000]: the default when retryAfter is absent, and a
   retryAfter below 60000 or above 600000 clamped into the interval. *)
C10_Original ==
    [][\A id \in Ids : \A ra \in RetryAfterArgs :
         callMarkRateLimited(id, ra) =>
             /\ Delay(id) \in DEFAULT_RETRY_AFTER_MS..MAX_RETRY_AFTER_MS
             /\ ra = {} => Delay(id) = DEFAULT_RETRY_AFTER_MS
             /\ \A d \in ra :
                    /\ d < DEFAULT_RETRY_AFTER_MS => Delay(id) = DEFAULT_RETRY_AFTER_MS
                    /\ d > MAX_RETRY_AFTER_MS => Delay(id) = MAX_RETRY_AFTER_MS
                    /\ d \in DEFAULT_RETRY_AFTER_MS..MAX_RETRY_AFTER_MS => Delay(id) = d]_vars

(* C10 amended: mark_rate_limited sets rate_limited_until = now + delay with
   delay at most 600000: the default 60000 when retryAfter is absent, 600000
   for a retryAfter above it, and any other retryAfter as it is, also below
   60000. *)
C10_DelayCappedAbove ==
    [][\A id \in Ids : \A ra \in RetryAfterArgs :
         callMarkRateLimited(id, ra) =>
             /\ Delay(id) <= MAX_RETRY_AFTER_MS
             /\ ra = {} => Delay(id) = DEFAULT_RETRY_AFTER_MS
             /\ \A d \in ra :
                    /\ d > MAX_RETRY_AFTER_MS => Delay(id) = MAX_RETRY_AFTER_MS
                    /\ d <= MAX_RETRY_AFTER_MS => Delay(id) = d]_vars

(* Two accounts are inside windows opened by marks with a retryAfter below the
   default and above the maximum: one of 1 ms and one of 600000 ms. *)
C10_Witness ==
    \E i, j \in DOMAIN health :
        /\ health[i].rate_limited_until = health[i].last_failure + 1
        /\ health[j].rate_limited_until = health[j].last_failure + MAX_RETRY_AFTER_MS
        /\ InWindow(i) /\ InWindow(j)

----------------------------------------------------------------------------
(* The ends of the windows of the stored accounts. *)
WindowEnds == {health[id].rate_limited_until : id \in StoredIds \cap DOMAIN health}

(* C11: all_rate_limited() returns false ({} here) when the pool is empty,
   false when at least one account of the pool is available, and otherwise
   the smallest rate_limited_until of the accounts of the pool. *)
C11_EarliestRecovery ==
    LET recovery == allRateLimited(list(store), health, now).recovery
    IN  /\ store = << >> => recovery = {}
        /\ (\E id \in StoredIds : Available(id)) => recovery = {}
        /\ (store # << >> /\ \A id \in StoredIds : InWindow(id)) =>
               /\ Cardinality(recovery) = 1
               /\ recovery \subseteq WindowEnds
               /\ \A u \in recovery : \A w \in WindowEnds : u <= w

(* Every account of a pool of two is inside its window, the windows end at
   different times, the earlier one is that of the second account in
   priority order, and all_rate_limited() returns it. *)
C11_Witness ==
    LET accounts == list(store)
    IN  /\ Len(accounts) = 2
        /\ \A id \in StoredIds : InWindow(id)
        /\ health[accounts[2].id].rate_limited_until
               < health[accounts[1].id].rate_limited_until
        /\ allRateLimited(accounts, health, now).recovery
               = {health[accounts[2].id].rate_limited_until}

----------------------------------------------------------------------------
(* C12, the reset: reset(id) leaves no record of id and touches no other
   record; id is available at once, and if it is stored pick() returns it as
   soon as the accounts ahead of it are excluded. *)
C12_ResetStep ==
    \A id \in Ids :
        callResetHealth(id) =>
            /\ DOMAIN health' = DOMAIN health \ {id}
            /\ \A j \in DOMAIN health' : health'[j] = health[j]
            /\ Available(id)'
            /\ \A a \in Stored :
                   a.id = id => pick(list(store), health', now', Ahead(a)).found = {a}

(* C12, the success after it: mark_success(id) on an id without a record
   leaves a record with score 100, consecutive_failures 0 and no window and
   no failure time. *)
C12_SuccessAfterReset ==
    \A id \in Ids :
        (callMarkSuccess(id) /\ id \notin DOMAIN health) =>
            health'[id] = [FreshHealth(id) EXCEPT !.last_success = now]

(* C12: reset(id) deletes the record: whatever window was active id is
   available to pick() at once, and a mark_success(id) that follows yields
   consecutive_failures = 0 and score = 100 whatever marks came before. *)
C12_ResetForgets == [][C12_ResetStep /\ C12_SuccessAfterReset]_vars

(* A stored account was marked rate limited, reset inside its window, and a
   success has been recorded for it since: its record shows score 100, no
   failure and no window. *)
C12_Witness ==
    \E id \in StoredIds \cap forgotten :
        /\ id \in DOMAIN health
        /\ health[id] = [FreshHealth(id) EXCEPT !.last_success = now]

----------------------------------------------------------------------------
(* C13: every health record has a score from 0 to 100 and a
   consecutive_failures of at least 0, and the registry holds at most one
   record per account id: the record under an id is the record of that id. *)
C13_RecordsInRange ==
    /\ DOMAIN health \subseteq Ids
    /\ \A id \in DOMAIN health :
           /\ health[id].id = id
           /\ health[id].score >= 0 /\ health[id].score <= 100
           /\ health[id].consecutive_failures >= 0
    /\ Cardinality({health[id].id : id \in DOMAIN health}) = Cardinality(DOMAIN health)

(* The floor and the cap have both acted: an account marked more often than
   its score can pay for is at 0, and another record is at 100 after a
   success. *)
C13_Witness ==
    \E id, j \in DOMAIN health :
        /\ health[id].score = 0
        /\ health[id].consecutive_failures > MaxWear
        /\ health[j].score = 100 /\ health[j].last_success = now

----------------------------------------------------------------------------
(* The probeAccount call of probe i is the one that takes this step. *)
ProbeStep(i) == stage'[i] # stage[i]

ProbedIds == {probed[i].id : i \in DOMAIN probed}

(* C14, the start: every probe is started by the call itself, before any has
   settled: each has its tier-1 request out, with its own token and the URL
   of its own domain, or has rejected. *)
C14_AllStarted ==
    probing # "idle" =>
        /\ DOMAIN stage = DOMAIN probed /\ DOMAIN results = DOMAIN probed
        /\ \A i \in DOMAIN probed :
               \/ stage[i] = "rejected" /\ requests[i] = << >> /\ results[i] = {}
               \/ /\ stage[i] # "rejected"
                  /\ Len(requests[i]) >= 1
                  /\ \A k \in DOMAIN requests[i] :
                         requests[i][k].Authorization = "token " \o probed[i].token
                  /\ \A r \in results[i] : r.id = probed[i].id

(* C14, the map: it has exactly one result per input account id, the result
   that account's own probe resolved to, and for a probe that rejected the
   generic error result; an empty input gives an empty map. *)
C14_OnePerId ==
    probing = "returned" =>
        /\ DOMAIN map = ProbedIds
        /\ probed = << >> => map = << >>
        /\ \A i \in DOMAIN probed :
               LET id == probed[i].id
               IN  /\ map[id].id = id
                   /\ stage[i] = "fulfilled" => results[i] = {map[id]}
                   /\ stage[i] = "rejected" =>
                          /\ map[id].status = "error"
                          /\ map[id].httpStatus = {} /\ map[id].retryAfterMs = {}
                          /\ map[id].username = {} /\ map[id].quotaResetDate = {}

(* C14, no interference: a step of one probe changes neither the stage, the
   requests or the result of another probe nor the health record of another
   account. *)
C14_OwnOutcome ==
    \A i \in DOMAIN stage :
        (probing = "running" /\ ProbeStep(i)) =>
            /\ \A j \in DOMAIN stage \ {i} :
                   stage'[j] = stage[j] /\ results'[j] = results[j]
                                        /\ requests'[j] = requests[j]
            /\ \A id \in (DOMAIN health \cup DOMAIN health') \ {probed[i].id} :
                   id \in DOMAIN health /\ id \in DOMAIN health' /\ health'[id] = health[id]

(* C14: probe_all starts one probe per account, all at once, and returns a
   map with exactly one result per input id, each the outcome of that
   account's own probe; a probe that rejects yields the generic error for its
   id alone; an empty input yields an empty map. *)
C14_ProbeAll == [](C14_AllStarted /\ C14_OnePerId) /\ [][C14_OwnOutcome]_vars

(* probeAll has returned a map of two: the first probe rejected and has the
   generic error, the second resolved to rate_limited. *)
C14_Witness ==
    /\ probing = "returned" /\ Len(probed) = 2
    /\ stage[1] = "rejected" /\ map[probed[1].id].status = "error"
    /\ stage[2] = "fulfilled" /\ map[probed[2].id].status = "rate_limited"

----------------------------------------------------------------------------
(* The identity endpoint of the account's domain. *)
IdentityEndpoint(account) ==
    IF account.domain.host = "github.com" THEN "https://api.github.com/user"
    ELSE "https://" \o account.domain.host \o "/api/v3/user"

(* The requests of probe i that went to the identity endpoint. *)
Tier2Requests(i) == {k \in DOMAIN requests[i] : requests[i][k].tier = "user_api"}

(* C15, the fallback: a tier-1 answer of 404 makes probeAccount send one
   request to the identity endpoint, with the account's token, and wait for
   it. *)
C15_FallbackOn404 ==
    \A i \in DOMAIN stage : \A outcome \in ExchangeOutcomes(now) :
        (tier1Settled(i, outcome) /\ ~outcome.failed /\ outcome.response.status = 404) =>
            /\ stage'[i] = "tier2"
            /\ Len(requests'[i]) = 2
            /\ requests'[i][2].tier = "user_api"
            /\ requests'[i][2].url = IdentityEndpoint(probed[i])
            /\ requests'[i][2].Authorization = "token " \o probed[i].token
            /\ requests'[i][2].settled = {}

(* C15, exactly once: no probe ever has more than one request to the identity
   endpoint, and once a probe has its result it sends nothing more. *)
C15_AtMostOneTier2 ==
    \A i \in DOMAIN stage :
        /\ Cardinality(Tier2Requests(i)) <= 1
        /\ Len(requests[i]) <= 2
        /\ stage[i] = "tier2" => Cardinality(Tier2Requests(i)) = 1

(* C15, the answer: a tier-2 answer of 200 gives ok by user_api, with the
   login of the body as the display name when the body has one, and
   mark_success applied to the account. *)
C15_Tier2Ok ==
    \A i \in DOMAIN stage : \A outcome \in UserApiOutcomes :
        (tier2Settled(i, outcome) /\ ~outcome.failed /\ outcome.response.status = 200) =>
            /\ stage'[i] = "fulfilled"
            /\ Len(requests'[i]) = 2
            /\ \E r \in results'[i] :
                   /\ results'[i] = {r}
                   /\ r.id = probed[i].id /\ r.status = "ok" /\ r.method = "user_api"
                   /\ r.httpStatus = {200}
                   /\ LET body == outcome.response.body
                      IN  r.username = IF body.parsable /\ body.login \notin {{}, {""}}
                                       THEN body.login ELSE {}
            /\ SuccessApplied(probed[i].id)

(* C15: a tier-1 404 triggers exactly one request to the identity endpoint,
   and a 200 from it gives ok by user_api with the display name of the body
   and mark_success applied. *)
C15_IdentityFallback ==
    []C15_AtMostOneTier2 /\ [][C15_FallbackOn404 /\ C15_Tier2Ok]_vars

(* A probe of the enterprise account was answered 404 at tier 1 and 200 at
   tier 2 and resolved to ok with the login of the body, and the account has
   the success on its record. *)
C15_Witness ==
    \E i \in DOMAIN stage :
        /\ stage[i] = "fulfilled" /\ probed[i].domain = Enterprise
        /\ Len(requests[i]) = 2
        /\ requests[i][1].settled = {[failed |-> FALSE, status |-> 404]}
        /\ requests[i][2].settled = {[failed |-> FALSE, status |-> 200]}
        /\ requests[i][2].url = "https://company.ghe.com/api/v3/user"
        /\ \E r \in results[i] : r.status = "ok" /\ r.username = {"octocat"}
        /\ health[probed[i].id].last_success = now

----------------------------------------------------------------------------
(* The tier-1 fetch of probe i has settled inconclusively: it failed at the
   network level (an abort by the timer included) or was answered 404. *)
Tier1Inconclusive(i) ==
    /\ requests[i] # << >>
    /\ \E o \in requests[i][1].settled : o.failed \/ o.status = 404

(* C16, if and only if: a probe has a tier-2 request exactly when its tier-1
   request failed or was answered 404. *)
C16_Tier2Iff ==
    \A i \in DOMAIN stage : Tier2Requests(i) # {} <=> Tier1Inconclusive(i)

(* C16, the step: a tier 1 that falls through leaves the health map as it
   is; any other tier-1 answer ends the probe with the result of tier 1 and
   without a second request. *)
C16_Tier1Step ==
    \A i \in DOMAIN stage : \A outcome \in ExchangeOutcomes(now) :
        tier1Settled(i, outcome) =>
            IF outcome.failed \/ outcome.response.status = 404
            THEN health' = health /\ results'[i] = {} /\ stage'[i] = "tier2"
            ELSE /\ stage'[i] = "fulfilled"
                 /\ Len(requests'[i]) = 1
                 /\ \E r \in results'[i] :
                        /\ results'[i] = {r}
                        /\ r.method = "token_exchange"
                        /\ r.httpStatus = {outcome.response.status}

(* C16, final: the result of a probe that has one never changes and the
   probe sends no further request. *)
C16_Final ==
    \A i \in DOMAIN stage :
        stage[i] = "fulfilled" =>
            /\ stage'[i] = "fulfilled" /\ results'[i] = results[i]
            /\ requests'[i] = requests[i]

(* C16: a tier-2 request is made if and only if tier 1 was answered 404 or
   failed at the network level, the fall-through leaves health alone, and
   every other tier-1 status is final without a tier-2 request. *)
C16_Tier2OnlyWhenInconclusive ==
    []C16_Tier2Iff /\ [][C16_Tier1Step /\ C16_Final]_vars

(* One probe's tier-1 fetch failed and its tier-2 request is out while its
   account has no health record; the other probe ended at tier 1 on a 401
   with a single request. *)
C16_Witness ==
    \E i, j \in DOMAIN stage :
        /\ stage[i] = "tier2"
        /\ requests[i][1].settled = {[failed |-> TRUE, status |-> 0]}
        /\ Len(requests[i]) = 2
        /\ probed[i].id \notin DOMAIN health
        /\ stage[j] = "fulfilled" /\ Len(requests[j]) = 1
        /\ requests[j][1].settled = {[failed |-> FALSE, status |-> 401]}

----------------------------------------------------------------------------
(* The retry-after a response carries: its numeric seconds in ms, else the
   time left until its HTTP date (0 when that is past), else nothing. *)
RetryAfterOf(response) ==
    CASE response.retryAfter.kind = "seconds" -> {response.retryAfter.v * 1000}
      [] response.retryAfter.kind = "date" ->
             {IF response.retryAfter.v > now THEN response.retryAfter.v - now ELSE 0}
      [] OTHER -> {}

(* The step has applied mark_rate_limited to id with this retry-after: one
   more consecutive failure, the window set to now + min(retry-after or
   60000, 600000), and no other record touched. *)
RateLimitApplied(id, retryAfterMs) ==
    LET before == IF id \in DOMAIN health THEN health[id] ELSE FreshHealth(id)
    IN  /\ DOMAIN health' = DOMAIN health \cup {id}
        /\ \A j \in DOMAIN health \ {id} : health'[j] = health[j]
        /\ health'[id].consecutive_failures = before.consecutive_failures + 1
        /\ health'[id].rate_limited_until = now + WindowLength(retryAfterMs)
        /\ health'[id].last_failure = now
        /\ health'[id].score = IF before.score < 10 THEN 0 ELSE before.score - 10

(* C17, all but the window: a tier-1 429 gives rate_limited with httpStatus
   429 and the retry-after parsed from the response, and mark_rate_limited is
   applied with it. *)
C17_Marked ==
    \A i \in DOMAIN stage : \A outcome \in ExchangeOutcomes(now) :
        (tier1Settled(i, outcome) /\ ~outcome.failed
            /\ outcome.response.status = TOO_MANY_REQUESTS) =>
            /\ \E r \in results'[i] :
                   /\ results'[i] = {r}
                   /\ r.id = probed[i].id /\ r.status = "rate_limited"
                   /\ r.httpStatus = {TOO_MANY_REQUESTS}
                   /\ r.method = "token_exchange"
                   /\ r.retryAfterMs = RetryAfterOf(outcome.response)
            /\ RateLimitApplied(probed[i].id, RetryAfterOf(outcome.response))

(* C17 as claimed, the window: after a tier-1 429 the account is inside its
   rate-limit window. *)
C17_WindowActive ==
    \A i \in DOMAIN stage : \A outcome \in ExchangeOutcomes(now) :
        (tier1Settled(i, outcome) /\ ~outcome.failed
            /\ outcome.response.status = TOO_MANY_REQUESTS) =>
            InWindow(probed[i].id)'

(* C17 amended, the window: after a tier-1 429 the account is inside its
   rate-limit window exactly when the retry-after is absent or above 0. *)
C17_WindowActiveUnlessZero ==
    \A i \in DOMAIN stage : \A outcome \in ExchangeOutcomes(now) :
        (tier1Settled(i, outcome) /\ ~outcome.failed
            /\ outcome.response.status = TOO_MANY_REQUESTS) =>
            (InWindow(probed[i].id)' <=> RetryAfterOf(outcome.response) # {0})

(* C17 as claimed: a tier-1 429 applies mark_rate_limited with the parsed
   retry-after and yields rate_limited, 429 and that retry-after;
   consecutive_failures grows by one and the window is active afterwards. *)
C17_Original == [][C17_Marked /\ C17_WindowActive]_vars

(* C17 amended: the same, with the window active afterwards unless the
   retry-after is 0. *)
C17_Tier1RateLimited == [][C17_Marked /\ C17_WindowActiveUnlessZero]_vars

(* A probe was answered 429 with a retry-after of 0: the result says
   rate_limited with retryAfterMs 0, the failure is on the record, and the
   account is available. *)
C17_Witness ==
    \E i \in DOMAIN stage :
        /\ stage[i] = "fulfilled"
        /\ requests[i][1].settled = {[failed |-> FALSE, status |-> TOO_MANY_REQUESTS]}
        /\ \E r \in results[i] : r.status = "rate_limited" /\ r.retryAfterMs = {0}
        /\ health[probed[i].id].last_failure = now
        /\ health[probed[i].id].rate_limited_until = now
        /\ Available(probed[i].id)

----------------------------------------------------------------------------
(* Both tracked counters of a 200 body are there and at or below 0. *)
BothCountersSpent(body) ==
    /\ body.parsable
    /\ \E q \in body.limited_user_quotas :
           /\ q.chat # {} /\ q.completions # {}
           /\ \A n \in q.chat \cup q.completions : n <= 0

(* The reset time a 200 body includes, in ms (a reset date of 0 counts as
   none), and the retry-after derived from it: the time left until then, 0
   when it is past. *)
ResetOf(body) == {d * 1000 : d \in body.limited_user_reset_date \ {0}}

RetryAfterUntil(reset) == {IF d > now THEN d - now ELSE 0 : d \in reset}

(* C18: a tier-1 200 gives quota_exhausted, with mark_rate_limited applied
   and the retry-after derived from the reset timestamp when one is included,
   exactly when both tracked counters are at or below 0; every other 200, an
   unparsable body included, gives ok with mark_success applied. *)
C18_QuotaOrOk ==
    [][\A i \in DOMAIN stage : \A outcome \in ExchangeOutcomes(now) :
         (tier1Settled(i, outcome) /\ ~outcome.failed /\ outcome.response.status = 200) =>
             LET body == outcome.response.body
                 id   == probed[i].id
             IN  \E r \in results'[i] :
                     /\ results'[i] = {r}
                     /\ r.id = id /\ r.httpStatus = {200} /\ r.method = "token_exchange"
                     /\ r.status = "quota_exhausted" <=> BothCountersSpent(body)
                     /\ IF BothCountersSpent(body)
                        THEN /\ r.quotaResetDate = ResetOf(body)
                             /\ r.retryAfterMs = RetryAfterUntil(ResetOf(body))
                             /\ RateLimitApplied(id, RetryAfterUntil(ResetOf(body)))
                        ELSE /\ r.status = "ok"
                             /\ r.quotaResetDate = {} /\ r.retryAfterMs = {}
                             /\ SuccessApplied(id)]_vars

(* Two probes were answered 200: one resolved to quota_exhausted with a reset
   time 700 s ahead and its account's window ends 600 s ahead; the other
   resolved to ok and its account has the success on its record. *)
C18_Witness ==
    \E i, j \in DOMAIN stage :
        /\ \E r \in results[i] :
               /\ r.status = "quota_exhausted"
               /\ r.quotaResetDate = {now + 700000} /\ r.retryAfterMs = {700000}
        /\ health[probed[i].id].rate_limited_until = now + MAX_RETRY_AFTER_MS
        /\ \E r \in results[j] : r.status = "ok" /\ r.method = "token_exchange"
        /\ health[probed[j].id].last_success = now

----------------------------------------------------------------------------
(* The outcomes the claim lists as errors: at tier 1 a 401, any other
   unexpected status, or a 403 without the rate-limit message; at tier 2 a
   network failure, a 401 or any status other than 200 and 403. *)
Tier1Error(outcome) ==
    /\ ~outcome.failed
    /\ \/ outcome.response.status \notin {200, 403, 404, TOO_MANY_REQUESTS}
       \/ /\ outcome.response.status = 403
          /\ ~(/\ outcome.response.body.parsable
               /\ \E message \in outcome.response.body.message :
                      /\ Len(message) >= 4
                      /\ <<message[1], message[2], message[3], message[4]>>
                             = <<"API", "rate", "limit", "exceeded">>)

Tier2Error(outcome) ==
    outcome.failed \/ outcome.response.status \notin {200, 403}

(* C19, the cases: each of the listed outcomes ends the probe with status
   error. *)
C19_ErrorCases ==
    \A i \in DOMAIN stage :
        /\ \A outcome \in ExchangeOutcomes(now) :
               (tier1Settled(i, outcome) /\ Tier1Error(outcome)) =>
                   \E r \in results'[i] : r.status = "error"
        /\ \A outcome \in UserApiOutcomes :
               (tier2Settled(i, outcome) /\ Tier2Error(outcome)) =>
                   \E r \in results'[i] : r.status = "error"

(* C19, the frame: the step on which a probe gets an error result, and the
   tier-1 step before it that fell through, leave the health map exactly as
   it was. *)
C19_HealthUntouched ==
    \A i \in DOMAIN stage :
        (ProbeStep(i) /\ (stage'[i] = "tier2" \/ \E r \in results'[i] : r.status = "error")) =>
            health' = health

(* C19: whenever probeAccount returns status error the health registry is
   left unchanged: no record is created, modified or deleted. *)
C19_ErrorsLeaveHealth == [][C19_ErrorCases /\ C19_HealthUntouched]_vars

(* A probe failed at the network level in both tiers and resolved to an error
   without an httpStatus, and its account still has no health record. *)
C19_Witness ==
    \E i \in DOMAIN stage :
        /\ stage[i] = "fulfilled" /\ Len(requests[i]) = 2
        /\ \A k \in 1..2 : requests[i][k].settled = {[failed |-> TRUE, status |-> 0]}
        /\ \E r \in results[i] :
               r.status = "error" /\ r.httpStatus = {} /\ r.method = "user_api"
        /\ probed[i].id \notin DOMAIN health

----------------------------------------------------------------------------
(* The message of the body starts with "API rate limit exceeded". *)
SaysRateLimit(body) ==
    /\ body.parsable
    /\ \E message \in body.message :
           /\ Len(message) >= 4
           /\ <<message[1], message[2], message[3], message[4]>>
                  = <<"API", "rate", "limit", "exceeded">>

(* The probe of i has ended as throttled by a 403: rate_limited with
   httpStatus 403 and no retryAfterMs, and mark_rate_limited applied with no
   retry-after, which sets the default window whatever the headers say. *)
Throttled403(i, method) ==
    /\ \E r \in results'[i] :
           /\ results'[i] = {r}
           /\ r.id = probed[i].id /\ r.status = "rate_limited"
           /\ r.httpStatus = {403} /\ r.retryAfterMs = {} /\ r.method = method
    /\ RateLimitApplied(probed[i].id, {})
    /\ health'[probed[i].id].rate_limited_until = now + DEFAULT_RETRY_AFTER_MS

(* C20: a 403 is recorded as throttling at tier 1 only when the message of
   the body starts with "API rate limit exceeded" (otherwise the result is an
   error and health is left alone), and at tier 2 always; in both cases
   mark_rate_limited is applied with no retry-after and the result is
   rate_limited with httpStatus 403. *)
C20_Throttling403 ==
    [][\A i \in DOMAIN stage :
         /\ \A outcome \in ExchangeOutcomes(now) :
                (tier1Settled(i, outcome) /\ ~outcome.failed
                    /\ outcome.response.status = 403) =>
                    IF SaysRateLimit(outcome.response.body)
                    THEN Throttled403(i, "token_exchange")
                    ELSE /\ \E r \in results'[i] :
                                r.status = "error" /\ r.httpStatus = {403}
                         /\ health' = health
         /\ \A outcome \in UserApiOutcomes :
                (tier2Settled(i, outcome) /\ ~outcome.failed
                    /\ outcome.response.status = 403) =>
                    Throttled403(i, "user_api")]_vars

(* Two probes were answered 403 and resolved to rate_limited: one at tier 1,
   the other at tier 2 after a 404, and both accounts are inside a window of
   the default length. *)
C20_Witness ==
    \E i, j \in DOMAIN stage :
        /\ requests[i] # << >> /\ Len(requests[j]) = 2
        /\ requests[i][1].settled = {[failed |-> FALSE, status |-> 403]}
        /\ requests[j][1].settled = {[failed |-> FALSE, status |-> 404]}
        /\ requests[j][2].settled = {[failed |-> FALSE, status |-> 403]}
        /\ \A k \in {i, j} :
               /\ \E r \in results[k] : r.status = "rate_limited" /\ r.httpStatus = {403}
               /\ health[probed[k].id].rate_limited_until
                      = health[probed[k].id].last_failure + DEFAULT_RETRY_AFTER_MS
               /\ InWindow(probed[k].id)

----------------------------------------------------------------------------
(* C25, one at a time: a call has a transport call in flight exactly while it
   awaits fetch(), and then exactly one; every earlier one has been answered. *)
C25_OneInFlight ==
    \A c \in Calls :
        Len(sent[c]) - Len(answers[c]) = IF pc[c] \in {"fetch", "thrown"} THEN 1 ELSE 0

(* C25, no waiting state: a call that is to pick can pick at once, whatever
   the clock and the windows say. *)
C25_NoWait == \A c \in Calls : pc[c] = "pick" => ENABLED pickResolved(c)

(* C25, the 429: the step that takes a 429 applies mark_rate_limited to the
   account of the attempt, with the retry-after of the response, sends
   nothing, and leaves the call about to pick. *)
C25_Recorded ==
    \A c \in Calls :
        (/\ pc[c] = "fetch"
         /\ Len(answers'[c]) > Len(answers[c])
         /\ Last(answers'[c]) = TOO_MANY_REQUESTS) =>
            /\ \E a \in current[c] : \E response \in Responses(now) :
                   /\ response.status = TOO_MANY_REQUESTS
                   /\ RateLimitApplied(a.id, RetryAfterOf(response))
            /\ pc'[c] = "pick"
            /\ sent'[c] = sent[c]

(* C25, the next attempt: a transport call is made only by a call that is
   picking, none of its transport calls is pending, and if it made one before,
   its answer was a 429 and the account it went to carries a failure. *)
C25_PickAfterRecord ==
    \A c \in Calls :
        Len(sent'[c]) > Len(sent[c]) =>
            /\ pc[c] = "pick"
            /\ Len(answers[c]) = Len(sent[c])
            /\ Len(sent'[c]) = Len(sent[c]) + 1
            /\ sent[c] # << >> =>
                   /\ Last(answers[c]) = TOO_MANY_REQUESTS
                   /\ \E a \in current[c] :
                          /\ a.id \in DOMAIN health
                          /\ health[a.id].last_failure >= StartTime

(* C25: within one copilotFetch call the attempts are strictly sequential, the
   next account is picked only after the 429 of the previous attempt has been
   recorded with mark_rate_limited, and nothing waits between attempts. *)
C25_Sequential ==
    /\ [](C25_OneInFlight /\ C25_NoWait)
    /\ [][C25_Recorded /\ C25_PickAfterRecord]_vars

(* A call is in its second attempt, at the instant it started: the first was
   answered 429 and the account it went to has its failure recorded. *)
C25_Witness ==
    \E c \in Calls :
        /\ pc[c] = "fetch" /\ Len(sent[c]) = 2 /\ answers[c] = << TOO_MANY_REQUESTS >>
        /\ now = StartTime
        /\ \E id \in tried[c] : /\ {id} # {a.id : a \in current[c]}
                                /\ id \in DOMAIN health
                                /\ health[id].consecutive_failures = 1
                                /\ health[id].last_failure = StartTime

----------------------------------------------------------------------------
(* C26: single-flight per account is not guaranteed.  A call that picks is
   given a lowest-priority-value available account it has not tried, and when
   that account is the one another call has in flight, it is given that very
   account and sends its token too. *)
C26_InFlightNotSkipped ==
    [][\A c \in Calls :
          (pc[c] = "pick" /\ pc'[c] # "pick" /\ Untried(c) # {}) =>
              /\ pc'[c] = "fetch"
              /\ current'[c] \subseteq Lowest(Untried(c))
              /\ \A d \in Calls \ {c} :
                     (pc[d] = "fetch" /\ current[d] = Lowest(Untried(c))) =>
                         /\ current'[c] = current[d]
                         /\ Last(sent'[c]) = Last(sent[d])]_vars

(* Both calls have a transport call in flight with the same account, and
   neither outcome has been recorded. *)
C26_Witness ==
    /\ pc[1] = "fetch" /\ pc[2] = "fetch"
    /\ current[1] # {} /\ current[1] = current[2]
    /\ sent[1] = sent[2] /\ Len(sent[1]) = 1
    /\ answers[1] = << >> /\ answers[2] = << >>
    /\ \A a \in current[1] : health[a.id] = FreshHealth(a.id)

----------------------------------------------------------------------------
(* C28: a transport failure during an attempt changes no health record:
   neither mark_success nor mark_rate_limited is applied, the call makes no
   further attempt and resolves to no response. *)
C28_FailureLeavesHealth ==
    [][\A c \in Calls :
          (pc[c] = "fetch" /\ Len(answers'[c]) = Len(answers[c]) /\ pc'[c] # "fetch") =>
              /\ health' = health
              /\ pc'[c] = "thrown"
              /\ sent'[c] = sent[c]
              /\ resp'[c] = {}]_vars
    /\ [][\A c \in Calls : pc[c] = "thrown" =>
              pc'[c] = "thrown" /\ sent'[c] = sent[c] /\ resp'[c] = {}]_vars

(* The second attempt of a call has failed: the account it went to has the
   record pick() created for it, untouched, and the account of the first
   attempt has its 429 and nothing more. *)
C28_Witness ==
    \E c \in Calls :
        /\ pc[c] = "thrown" /\ Len(sent[c]) = 2 /\ answers[c] = << TOO_MANY_REQUESTS >>
        /\ \A d \in Calls \ {c} : pc[d] = "idle"
        /\ \E a \in current[c] : health[a.id] = FreshHealth(a.id)
        /\ \E id \in tried[c] : health[id].consecutive_failures = 1

----------------------------------------------------------------------------
(* C24: mark_rate_limited, mark_success and the availability check are applied
   atomically per id, whatever the interleaving of dispatches and probes: no
   update is lost.  A record that has had k mark_rate_limited calls since it
   was created or last had a mark_success or a recovery has k more
   consecutive failures than it had then, and its score is 10*k lower,
   floored at 0. *)
C24_NoLostUpdate ==
    /\ DOMAIN streak = DOMAIN health
    /\ \A id \in DOMAIN health :
           /\ health[id].consecutive_failures = streak[id].failures + streak[id].k
           /\ health[id].score = IF streak[id].score < 10 * streak[id].k THEN 0
                                 ELSE streak[id].score - 10 * streak[id].k

(* Three 429s for one account, from two calls that had it in flight together
   and from a probe, all recorded: three failures, score 70. *)
C24_Witness ==
    /\ "a" \in DOMAIN health
    /\ streak["a"].k = 3 /\ streak["a"].score = 100
    /\ health["a"].consecutive_failures = 3 /\ health["a"].score = 70
    /\ \A c \in Calls : answers[c] # << >> /\ answers[c][1] = TOO_MANY_REQUESTS
                        /\ sent[c][1] = "Bearer token-a"
    /\ \E i \in DOMAIN results : \E r \in results[i] : r.id = "a" /\ r.status = "rate_limited"

----------------------------------------------------------------------------
(* C27, the timers: probeAll arms one timer per account, all for the instant
   PROBE_TIMEOUT_MS after the call, and a probe is pending only before that
   instant has passed. *)
C27_Armed ==
    (probing = "idle" /\ probing' = "running") =>
        \A i \in DOMAIN timers' :
            /\ timers'[i].at = now + PROBE_TIMEOUT_MS
            /\ stage'[i] \in {"tier1", "tier2"} => timers'[i].state = "armed"

C27_WithinTimeout ==
    probing = "running" => \A i \in DOMAIN timers : now <= timers[i].at

(* C27, the abort: once its timer has fired, a probe makes no step but the
   rejection of its request in flight; after tier 1 the tier-2 request is
   rejected in its turn and the probe resolves to an error. *)
C27_Abort ==
    \A i \in DOMAIN stage :
        (timers[i].state = "fired" /\ stage'[i] # stage[i]) =>
            /\ \E r \in requests'[i][Len(requests[i])].settled : r.failed
            /\ stage[i] = "tier1" => stage'[i] = "tier2"
            /\ stage[i] = "tier2" =>
                   /\ stage'[i] = "fulfilled"
                   /\ \E r \in results'[i] : r.status = "error" /\ r.httpStatus = {}

(* C27, siblings: a pending probe whose timer has not fired can take an answer
   whatever the other probes are doing. *)
C27_SiblingsFree ==
    \A i \in Pending :
        timers[i].state = "armed" =>
            /\ stage[i] = "tier1" => ENABLED tier1Settled(i, Answer(200, NoHeader, Json))
            /\ stage[i] = "tier2" => ENABLED tier2Settled(i, Answer(200, NoHeader, Json))

(* C27: every probeAccount call and every probeAll call returns even if the
   network never answers; the timer of each account aborts its request in
   flight, a hung probe does not block its siblings, and the caller waits no
   longer than the timeout. *)
C27_ProbeReturns ==
    /\ [](C27_WithinTimeout /\ C27_SiblingsFree)
    /\ [][C27_Armed /\ C27_Abort]_vars
    /\ \A i \in 1..MaxProbes :
           (i \in Pending) ~> (i \in DOMAIN stage /\ stage[i] \in {"fulfilled", "rejected"})
    /\ (probing = "running") ~> (probing = "returned")

(* probeAll has returned at the instant of the timers: the first probe hung
   until its timer fired and resolved to an unreachable error, the second had
   been answered before and its timer was cleared. *)
C27_Witness ==
    /\ probing = "returned" /\ Len(probed) = 2
    /\ now = timers[1].at /\ now = StartTime + PROBE_TIMEOUT_MS
    /\ timers[1].state = "fired" /\ timers[2].state = "cleared"
    /\ map[probed[1].id].status = "error" /\ map[probed[1].id].method = "user_api"
    /\ map[probed[2].id].status = "ok"

----------------------------------------------------------------------------
(* The ids list() returns, in its order, and those status() has a record of. *)
Listed(st) == [i \in DOMAIN st |-> list(st)[i].id]

(* C21: the remove command first removes the account from the store, the
   health map untouched, and then deletes its health record; when it returns
   "Removed", neither list() nor status() has that id. *)
C21_StoreFirst ==
    (cmd.action = "remove" /\ cmd.pc = "store" /\ cmd'.pc # "store") =>
        /\ cmd'.pc = "reset"
        /\ cmd.found[1].id \in idsOf(list(store))
        /\ cmd.found[1].id \notin idsOf(list(store'))
        /\ health' = health

C21_ThenHealth ==
    (cmd'.answer = "Removed" /\ cmd.pc # "returned") =>
        /\ cmd.pc = "reset" /\ cmd'.pc = "returned"
        /\ cmd.found[1].id \notin idsOf(list(store'))
        /\ cmd.found[1].id \notin DOMAIN health'
        /\ \A id \in DOMAIN health \ {cmd.found[1].id} :
               id \in DOMAIN health' /\ health'[id] = health[id]

C21_RemoveCommand == [][C21_StoreFirst /\ C21_ThenHealth]_vars

(* The remove command has returned for account "a", whose health record was
   deleted inside its rate-limit window; another account is still stored. *)
C21_Witness ==
    /\ cmd.pc = "returned" /\ cmd.answer = "Removed" /\ cmd.found[1].id = "a"
    /\ "a" \in forgotten
    /\ "a" \notin idsOf(list(store)) /\ "a" \notin DOMAIN health
    /\ store # << >>

----------------------------------------------------------------------------
(* C22, the order: as long as no reorder has run, list() returns the accounts
   the login flow added, those still stored, in the order of their addition. *)
C22_AdditionOrder ==
    ~enrolled.reordered =>
        Listed(store) = SelectSeq(enrolled.order, LAMBDA id : id \in idsOf(store))

(* C22, a later account: the account the login flow adds comes last in
   list(), behind every account already in the pool, whose order is kept. *)
C22_AddedLast ==
    enrolled'.order # enrolled.order =>
        /\ Len(store') = Len(store) + 1
        /\ Listed(store') = Append(Listed(store), Last(enrolled'.order))

(* C22: accounts are used in priority order, the first added first; an
   account added later never outranks one already in the pool. *)
C22_FirstAddedFirst == []C22_AdditionOrder /\ [][C22_AddedLast]_vars

(* Three accounts were added, two of them in the same millisecond, the second
   has been removed by the command, no reorder has run: list() returns the
   first and the third, in that order. *)
C22_Witness ==
    /\ enrolled = [order |-> << "a", "b", "c" >>, reordered |-> FALSE]
    /\ cmd.answer = "Removed" /\ cmd.found[1].id = "b"
    /\ cmd.found[1].priority = StartTime
    /\ Listed(store) = << "a", "c" >>
    /\ now > StartTime

----------------------------------------------------------------------------
(* C23: whenever the pool is not empty, the github-copilot entry of auth.json
   holds the token of an account with the lowest priority value, as refresh
   and as access token, and that account's domain as enterpriseUrl exactly
   when the domain is not github.com. *)
C23_PrimarySynced ==
    store # << >> =>
        \E i \in DOMAIN store :
            /\ \A j \in DOMAIN store : store[i].priority <= store[j].priority
            /\ auth = {[type |-> "oauth", refresh |-> store[i].token,
                        access |-> store[i].token, expires |-> 0,
                        enterpriseUrl |-> IF store[i].domain.host = "github.com" THEN {}
                                          ELSE {store[i].domain}]}

(* The reorder command has put an enterprise account, added second, in front
   of a github.com account, and auth.json holds its token and its domain. *)
C23_Witness ==
    /\ cmd.pc = "returned" /\ cmd.answer = "Accounts reordered successfully."
    /\ Len(store) >= 2
    /\ list(store)[1].id = "b" /\ list(store)[1].domain.host = "company.ghe.com"
    /\ list(store)[2].id = "a" /\ list(store)[2].domain = GitHub
    /\ \E entry \in auth : entry.refresh = "token-b"
                           /\ entry.enterpriseUrl = {list(store)[1].domain}

----------------------------------------------------------------------------
(* C29: the priorities of the stored accounts are pairwise distinct. *)
C29_DistinctPriorities ==
    \A i, j \in DOMAIN store : i # j => store[i].priority # store[j].priority

(* Two accounts added by the login flow in the same millisecond are stored
   with the same priority. *)
C29_Witness ==
    /\ Len(store) = 2
    /\ enrolled = [order |-> << "a", "b" >>, reordered |-> FALSE]
    /\ store[1].priority = store[2].priority
    /\ store[1].priority = StartTime

----------------------------------------------------------------------------
(* The place of an id in the stored array, and the first place of an id in
   an array of ids. *)
PlaceOf(st, id) == CHOOSE i \in DOMAIN st : st[i].id = id

FirstAt(ids, id) == CHOOSE i \in DOMAIN ids : ids[i] = id /\ \A j \in 1..(i - 1) : ids[j] # id

(* The store after the step is the store before it reordered by ids: the
   same accounts, none lost or doubled and nothing but the priority changed;
   first those listed, in the order of their first mention, then the others;
   the priorities 0..n-1 in that order.  Ids that no account has and repeated
   ids count for nothing. *)
ReorderedBy(ids) ==
    LET known == {id \in idsOf(store) : \E i \in DOMAIN ids : ids[i] = id}
    IN  /\ Len(store') = Len(store)
        /\ idsOf(store') = idsOf(store)
        /\ \A id \in idsOf(store) :
               store'[PlaceOf(store', id)] =
                   [store[PlaceOf(store, id)] EXCEPT
                        !.priority = store'[PlaceOf(store', id)].priority]
        /\ \A i \in DOMAIN store' : store'[i].priority = i - 1
        /\ \A x \in known : \A y \in idsOf(store) \ known :
               PlaceOf(store', x) < PlaceOf(store', y)
        /\ \A x, y \in known :
               FirstAt(ids, x) < FirstAt(ids, y) => PlaceOf(store', x) < PlaceOf(store', y)

(* C30: reorder(ids) puts the listed existing accounts first, in the order
   given, then all the others, gives them the priorities 0..n-1 in that order
   and neither loses nor doubles an account; unknown and repeated ids are
   ignored.  Both for the function called with any array of ids and for the
   reorder command. *)
C30_Reorder ==
    [][/\ \A ids \in ReorderArgs : callReorder(ids) => ReorderedBy(ids)
       /\ reorderResolved => ReorderedBy([i \in DOMAIN cmd.found |-> cmd.found[i].id])]_vars

(* The reorder command was given the same account twice, the second of three
   stored: it is now first, the others follow, with priorities 0, 1, 2. *)
C30_Witness ==
    /\ cmd.pc = "returned" /\ cmd.action = "reorder"
    /\ Len(cmd.found) = 2 /\ cmd.found[1].id = "b" /\ cmd.found[2].id = "b"
    /\ [i \in DOMAIN store |-> store[i].id] = << "b", "a", "c" >>
    /\ [i \in DOMAIN store |-> store[i].priority] = << 0, 1, 2 >>

----------------------------------------------------------------------------
(* C31: after remove(id) the id is not in the store, the other accounts are
   all still there, and the n accounts that remain have the priorities 0..n-1,
   each once. *)
C31_RemoveStep(id) ==
    /\ id \notin idsOf(store')
    /\ idsOf(store') = idsOf(store) \ {id}
    /\ Len(store') = Cardinality(idsOf(store) \ {id})
    /\ {store'[i].priority : i \in DOMAIN store'} = 0..(Len(store') - 1)

C31_RemoveRenumbers == [][\A id \in Ids \cup {"zz"} : callRemove(id) => C31_RemoveStep(id)]_vars

(* remove("b") was called on three accounts whose priorities had a repeat and
   a gap; the two that remain have the priorities 0 and 1. *)
C31_Witness ==
    /\ called.op = "remove" /\ called.arg = "b"
    /\ Len(called.before) = 3 /\ "b" \in idsOf(called.before)
    /\ {called.before[i].priority : i \in DOMAIN called.before} = {0, MaxPriority}
    /\ idsOf(store) = {"a", "c"}
    /\ {store[i].priority : i \in DOMAIN store} = {0, 1}

----------------------------------------------------------------------------
(* C32, the invariant: the store holds at most one account per id. *)
C32_OnePerId == \A i, j \in DOMAIN store : store[i].id = store[j].id => i = j

(* C32, the step: add(account) with an id that is stored puts the account in
   the place of the stored one: as many accounts as before, the others where
   they were and as they were, and in the same order in list(); with a new id
   the account is appended. *)
C32_AddStep(account) ==
    IF account.id \in idsOf(store)
    THEN /\ Len(store') = Len(store)
         /\ \A i \in DOMAIN store :
                store'[i] = IF store[i].id = account.id THEN account ELSE store[i]
         /\ SelectSeq(list(store'), LAMBDA a : a.id # account.id)
                = SelectSeq(list(store), LAMBDA a : a.id # account.id)
    ELSE store' = Append(store, account)

(* C32: add replaces the stored account of the same id or appends. *)
C32_AddReplacesOrAppends ==
    []C32_OnePerId /\ [][\A account \in AddArgs : callAdd(account) => C32_AddStep(account)]_vars

(* add was called with an account "a" of another label, token and priority
   while "a" stood second of three: it still stands second, as given. *)
C32_Witness ==
    /\ called.op = "add" /\ called.arg.label = "updated"
    /\ Len(called.before) = 3 /\ called.before[2].id = "a"
    /\ called.before[2].label = "label-a"
    /\ called.before[2].priority # called.arg.priority
    /\ Len(store) = 3 /\ store[2] = called.arg
    /\ store[1] = called.before[1] /\ store[3] = called.before[3]

----------------------------------------------------------------------------
(* C40: after remove(id), list() returns the accounts that remain in the
   order in which it returned them before. *)
C40_RemoveKeepsOrder ==
    [][\A id \in Ids \cup {"zz"} :
          callRemove(id) => Listed(store') = SelectSeq(Listed(store), LAMBDA x : x # id)]_vars

(* remove was called on a store whose array order is not its priority order:
   list() now returns the remaining accounts in another order than before. *)
C40_Witness ==
    /\ called.op = "remove"
    /\ Listed(store) # SelectSeq(Listed(called.before), LAMBDA x : x # called.arg)
    /\ idsOf(store) = idsOf(called.before) \ {called.arg}

----------------------------------------------------------------------------
(* C35: a call that resolves without having made an attempt says that no
   accounts are configured only when the pool is empty; when the pool holds
   an account, its response reports rate limiting and carries the earliest
   end of a window, whatever happened between its pick() and its
   allRateLimited(). *)
C35_Resolves(c) ==
    (pc[c] # "done" /\ pc'[c] = "done" /\ tried'[c] = {}) =>
        \A r \in resp'[c] :
            /\ r.error = NoAccountsMessage => store = << >>
            /\ store # << >> =>
                   /\ r.error = RateLimitedMessage
                   /\ \E a \in Stored : r.recovery = {health[a.id].rate_limited_until}
                   /\ \A a \in Stored : TheValue(r.recovery) <= health[a.id].rate_limited_until

C35_NotConfiguredOnlyWhenEmpty == [][\A c \in Calls : C35_Resolves(c)]_vars

(* Two accounts are stored and both were rate limited when the call picked;
   the window of one ended before the call computed the recovery time, and
   the call answered that no accounts are configured. *)
C35_Witness ==
    \E c \in Calls :
        /\ pc[c] = "done" /\ tried[c] = {} /\ sent[c] = << >>
        /\ Len(store) = 2
        /\ \E r \in resp[c] : r.synth /\ r.error = NoAccountsMessage
        /\ \A a \in Stored : a.id \in DOMAIN health /\ health[a.id].last_failure > 0
        /\ \E a \in Stored : health[a.id].rate_limited_until = 0
        /\ \E a \in Stored : health[a.id].rate_limited_until > now

----------------------------------------------------------------------------
(* C36: once the remove command has returned and no copilotFetch call is in
   flight, the health map holds no record for the removed id. *)
C36_NoRecordLeft ==
    (/\ cmd.pc = "returned" /\ cmd.answer = "Removed"
     /\ \A c \in Calls : pc[c] \in {"idle", "done", "thrown"})
        => cmd.found[1].id \notin DOMAIN health

(* Account "a" was removed while a call had a request in flight for it; the
   command has returned, the call has resolved with the answer to that
   request, and the health map holds a record for "a". *)
C36_Witness ==
    /\ cmd.pc = "returned" /\ cmd.answer = "Removed" /\ cmd.found[1].id = "a"
    /\ "a" \notin idsOf(store)
    /\ \A c \in Calls : pc[c] \in {"idle", "done", "thrown"}
    /\ \E c \in Calls : pc[c] = "done" /\ "a" \in tried[c]
    /\ "a" \in DOMAIN health
    /\ health["a"].last_success > 0 \/ health["a"].last_failure > 0

----------------------------------------------------------------------------
(* C37, the window: the window of a record ends at most MAX_RETRY_AFTER_MS
   after the moment it was set, which the record keeps as last_failure. *)
C37_WindowCapped ==
    \A id \in DOMAIN health :
        health[id].rate_limited_until <= health[id].last_failure + MAX_RETRY_AFTER_MS

(* C37, the way back: MAX_RETRY_AFTER_MS after it was last marked, at the
   latest, the availability check passes and pick() returns the account. *)
C37_AvailableAgain ==
    \A id \in DOMAIN health :
        LET t == health[id].last_failure + MAX_RETRY_AFTER_MS
        IN  /\ isAvailable(health[id], t).avail
            /\ pick(<< Account(id, 0) >>, health, t, {}).found = {Account(id, 0)}

(* C37: whatever retry-after value or reset date the upstream supplied, an
   account is out of rotation for at most MAX_RETRY_AFTER_MS. *)
C37_AtMostTenMinutes == C37_WindowCapped /\ C37_AvailableAgain

(* A probe was answered that the quota is spent until a reset date further
   away than the maximum; the maximum has passed since, the reset date has
   not, and pick() would return the account. *)
C37_Witness ==
    \E i \in DOMAIN stage :
        /\ probing = "returned"
        /\ \E r \in results[i] :
               /\ r.status = "quota_exhausted"
               /\ \E ms \in r.retryAfterMs : ms > MAX_RETRY_AFTER_MS
               /\ \E date \in r.quotaResetDate : now < date
        /\ now = health[probed[i].id].last_failure + MAX_RETRY_AFTER_MS
        /\ health[probed[i].id].rate_limited_until = now
        /\ pick(<< probed[i] >>, health, now, {}).found = {probed[i]}

----------------------------------------------------------------------------
(* C38, one step on the record of id; was is the streak the record is in:
   how often it was marked since its window was last cleared, it had a
   success or was created, and its score then.
   - a recovery after exactly one mark, from a score of at least 10, gives
     back exactly that score;
   - a recovery leaves the score below the one the streak began with only
     after more than one mark;
   - no step but a mark lowers a score. *)
C38_Step(id) ==
    LET was == StreakOf(id)
    IN  /\ (id \in Recovering /\ was.k = 1 /\ was.score >= 10) =>
               health'[id].score = was.score
        /\ (id \in Recovering /\ health'[id].score < was.score) => was.k > 1
        /\ (id \in DOMAIN health \cap DOMAIN health'
            /\ health'[id].score < health[id].score) =>
               /\ streak'[id].k = was.k + 1
               /\ health'[id].consecutive_failures = health[id].consecutive_failures + 1

(* C38: a mark followed by a recovery returns the score to what it was, and
   only more than one mark between two clearings of the window leaves it
   lower. *)
C38_MarkThenRecovery == [][\A id \in Ids : C38_Step(id)]_vars

(* A worn record recovered, was marked once and recovered again: its score
   is the one it had after the first recovery, its one failure is still
   counted and its window is clear. *)
C38_Witness ==
    /\ "a" \in DOMAIN health
    /\ health["a"].score = Worn(MaxWear - 1, FewSuccesses)["a"].score + 10
    /\ health["a"].score < 100
    /\ health["a"].rate_limited_until = 0
    /\ health["a"].consecutive_failures = 1
    /\ health["a"].last_success = StartTime
    /\ health["a"].last_failure > StartTime
    /\ now > health["a"].last_failure
    /\ streak["a"] = Begun(health["a"])

----------------------------------------------------------------------------
(* What a reader finds under id in the Map status() returned: the record
   object, as it is now. *)
Contents(id) == IF taken[id].live THEN health[id] ELSE taken[id].last

(* C34: the Map status() returned holds, under every id, the record as it was
   when status() was called. *)
C34_SnapshotKept == \A id \in DOMAIN taken : Contents(id) = taken[id].was

(* status() was called while "a" had a clean record; "a" was marked rate
   limited afterwards, and the Map that was returned shows the failure. *)
C34_Witness ==
    /\ "a" \in DOMAIN taken /\ taken["a"].live
    /\ taken["a"].was.consecutive_failures = 0 /\ taken["a"].was.rate_limited_until = 0
    /\ Contents("a").consecutive_failures = 1
    /\ Contents("a").rate_limited_until > now
    /\ Contents("a").score = taken["a"].was.score - 10

----------------------------------------------------------------------------
(* C39: when the add() calls have all completed, the account of each of them
   is in the stored list. *)
C39_AllTakeEffect ==
    (\A p \in Adders : adders[p].pc = "done") =>
        \A p \in Adders : AdderId[p] \in idsOf(list(store))

(* Two add() calls with the accounts "a" and "b" overlapped and have both
   returned; the store holds "b" and not "a". *)
C39_Witness ==
    /\ \A p \in Adders : adders[p].pc = "done"
    /\ adders["p1"].account = {Account("a", StartTime)}
    /\ adders["p2"].account = {Account("b", StartTime)}
    /\ "a" \in idsOf(adders["p1"].accounts)
    /\ idsOf(store) \cap {"a", "b"} = {"b"}

----------------------------------------------------------------------------
(* The answers that begin with "Error:". *)
ErrorAnswers ==
    {"Error: username is required.", "Error: usernames are required.",
     "Error: no account found"}

(* A name that matches no label and no id of the accounts list() returns. *)
Unmatched(name) ==
    \A a \in Stored : a.label # name /\ ~idStartsWith(a.id, name)

(* C33, a step of the accounts command:
   - the command answers with an error when it is given no name, and when
     list() has resolved and one of its names matches no account;
   - an error is the answer of the command's first step or of the step after
     list(), before any remove() or reorder(), and that step leaves the stored
     array, auth.json and the health map as they are;
   - so does the step that leads up to list(). *)
C33_Step ==
    cmd' # cmd =>
        /\ (cmd.pc \in {"idle", "returned"} /\ cmd'.pc = "returned") =>
               cmd'.answer \in ErrorAnswers
        /\ (cmd.pc = "list" /\ \E i \in DOMAIN cmd.names : Unmatched(cmd.names[i])) =>
               cmd'.answer \in ErrorAnswers
        /\ cmd'.answer \in ErrorAnswers =>
               /\ cmd.pc \in {"idle", "returned", "list"} /\ cmd'.pc = "returned"
               /\ store' = store /\ auth' = auth /\ health' = health
        /\ cmd'.pc = "list" => store' = store /\ auth' = auth /\ health' = health

(* C33: a command that cannot be carried out returns an error and changes
   nothing; reorder changes no priority when one of its names is unknown. *)
C33_ErrorsChangeNothing == [][C33_Step]_vars

(* A reorder command found its first name, an account that is not first in
   the list, and not its second: it answered with an error, and the account
   is still not first.  A health record exists. *)
C33_Witness ==
    /\ cmd.pc = "returned" /\ cmd.action = "reorder"
    /\ cmd.answer = "Error: no account found"
    /\ Len(cmd.found) = 1 /\ cmd.found[1].label = "work"
    /\ Len(store) >= 2
    /\ list(store)[1].id # cmd.found[1].id
    /\ list(store)[2] = cmd.found[1]
    /\ health # << >>

====
